---- MODULE Spec2Model ----
(***************************************************************************)
(* Hidden-content directive pipeline of the memos fork.                    *)
(*                                                                         *)
(* Go side (package forked): ProcessHiddenContent, the encoder that turns  *)
(* :::hide directives into placeholder tokens, and                          *)
(* ProcessContentSearchFilter / removeHiddenPlaceholders, the search        *)
(* filter that strips placeholder tokens before keyword matching.           *)
(*                                                                         *)
(* Web side: resolveNode of resolve.ts, which resolves directives in text  *)
(* nodes and collects block directives over successive calls in the        *)
(* module-level blockAction, and the remark plugin remarkHiddenContent,    *)
(* which does both on a markdown tree.                                     *)
(*                                                                         *)
(* A Go string is modelled as a sequence of one-character strings, and the  *)
(* regular expressions are modelled by matchers that follow Go's            *)
(* leftmost-first semantics character by character.                         *)
(***************************************************************************)
EXTENDS Integers, Sequences, FiniteSets, TLC

VARIABLES
    content,           \* the memo content handed to the Go functions
    typed,             \* names of the parts the author typed, in order
    pc,                \* position of the run
    processedContent,  \* result of ProcessHiddenContent(content)
    reprocessed,       \* result of ProcessHiddenContent(processedContent)
    filters,           \* the filter strings handed to the search filter
    keywords,          \* keywords of the well-formed clauses typed, in order
    matched,           \* result of ProcessContentSearchFilter
    resolved,          \* what resolveNode returns for a text node holding content
    remarked,          \* children remarkHiddenContent leaves in place of that text
    docs,              \* the units of each document handed to resolveNode
    at,                \* how many units of each document have been resolved
    results,           \* what resolveNode returned for them, in call order
    blockAction,       \* the module-level scanner state of resolve.ts
    tree,              \* the children of the root handed to remarkHiddenContent
    newTree,           \* the children of the root after remarkHiddenContent
    extracted,         \* what the attribute blob typed gives, once extracted
    cache,             \* mediaResolutionCache: the keys in insertion order
    accessOrder,       \* cacheAccessOrder
    strippedContent     \* result of removeHiddenPlaceholders(content)

\* the variables of the Go side
goVars == <<content, typed, pc, processedContent, reprocessed, filters, keywords, matched>>
\* the variables of the web side
webVars == <<resolved, remarked, docs, at, results, blockAction, tree, newTree,
            extracted, cache, accessOrder, strippedContent>>
\* the variables of the attribute run, of the media resolution cache and of the
\* stripping run
sideVars == <<extracted, cache, accessOrder, strippedContent>>

vars == <<content, typed, pc, processedContent, reprocessed, filters, keywords, matched,
          resolved, remarked, docs, at, results, blockAction, tree, newTree,
          extracted, cache, accessOrder, strippedContent>>

\* the web side before anything is rendered
WebIdle ==
    /\ resolved = <<>>
    /\ remarked = <<>>
    /\ docs = <<>>
    /\ at = <<>>
    /\ results = <<>>
    /\ blockAction = <<>>
    /\ tree = <<>>
    /\ newTree = <<>>
    /\ extracted = <<>>
    /\ cache = <<>>
    /\ accessOrder = <<>>
    /\ strippedContent = <<>>

----------------------------------------------------------------------------
(* Bounds *)

\* parts of a memo the author types before it is encoded
MaxParts == 3
\* parts of a stored memo content that is searched
MaxContentParts == 3
\* filter strings of one search
MaxFilters == 2

----------------------------------------------------------------------------
(* Strings *)

Colon == <<":">>
Comma == <<",">>
Semi == <<";">>
Equals == <<"=">>
LBrace == <<"{">>
RBrace == <<"}">>
RBracket == <<"]">>
Space == <<" ">>
Newline == <<"\n">>
Quote == <<"\"">>

\* Go's \s: [\t\n\f\r ]
Whitespace == {" ", "\t", "\n", "\r", "\f"}

\* s has lit at index i
HasAt(s, i, lit) ==
    /\ i >= 1
    /\ i + Len(lit) - 1 <= Len(s)
    /\ SubSeq(s, i, i + Len(lit) - 1) = lit

\* the leftmost of a set of match positions, 0 when there is none
Leftmost(hits) ==
    IF hits = {} THEN 0 ELSE CHOOSE j \in hits : \A k \in hits : j <= k

\* first index >= i at which lit occurs in s, 0 when there is none
IndexFrom(s, lit, i) ==
    Leftmost({j \in i..(Len(s) - Len(lit) + 1) : HasAt(s, j, lit)})

\* strings.Contains
Contains(s, substr) == IndexFrom(s, substr, 1) # 0

\* strings.Split with a non-empty separator
RECURSIVE Split(_, _)
Split(s, sep) ==
    LET i == IndexFrom(s, sep, 1)
    IN  IF i = 0 THEN <<s>>
        ELSE <<SubSeq(s, 1, i - 1)>> \o Split(SubSeq(s, i + Len(sep), Len(s)), sep)

\* strings.Join
RECURSIVE Join(_, _)
Join(elems, sep) ==
    IF elems = <<>> THEN <<>>
    ELSE IF Len(elems) = 1 THEN elems[1]
    ELSE elems[1] \o sep \o Join(Tail(elems), sep)

\* concatenation of a sequence of strings
Concat(elems) == Join(elems, <<>>)

----------------------------------------------------------------------------
(* ProcessHiddenContent *)

OpenMark == <<":", ":", ":", "h", "i", "d", "e">>
CloseMark == <<":", ":", ":">>
BlockClose == <<"\n", ":", ":", ":">>
InlineOpen == <<"[", "h", "i", "d", "e", "-", "i", "n", "l", "i", "n", "e">>
BlockOpen == <<"[", "h", "i", "d", "e", "-", "b", "l", "o", "c", "k">>

NoMatch == [end |-> 0, attrs |-> <<>>]

\* (?:\{([^}]*)\})? tried at index p with the group taken: [^}]* is greedy and
\* must be followed by }, so the group can only end at the first } after the {
AttrGroup(s, p) ==
    IF p <= Len(s) /\ s[p] = "{"
    THEN LET q == IndexFrom(s, RBrace, p + 1)
         IN  IF q = 0 THEN [taken |-> FALSE, attrs |-> <<>>, next |-> p]
             ELSE [taken |-> TRUE, attrs |-> SubSeq(s, p + 1, q - 1), next |-> q + 1]
    ELSE [taken |-> FALSE, attrs |-> <<>>, next |-> p]

\* \n(.*?)\n::: tried at index a, (?s) on: the lazy body ends at the first
\* \n::: after the opener's newline; the index of the last colon, 0 when it fails
BlockTail(s, a) ==
    IF a <= Len(s) /\ s[a] = "\n"
    THEN LET c == IndexFrom(s, BlockClose, a + 1)
         IN  IF c = 0 THEN 0 ELSE c + 3
    ELSE 0

\* blockRe matched at index i (the attribute group is tried taken first, then
\* skipped); parts[1] is "" when the group takes no part in the match
blockRe(s, i) ==
    IF ~HasAt(s, i, OpenMark) THEN NoMatch
    ELSE LET g == AttrGroup(s, i + 7)
             withAttrs == IF g.taken THEN BlockTail(s, g.next) ELSE 0
             without == BlockTail(s, i + 7)
         IN  IF withAttrs # 0 THEN [end |-> withAttrs, attrs |-> g.attrs]
             ELSE IF without # 0 THEN [end |-> without, attrs |-> <<>>]
             ELSE NoMatch

\* index of the last character of the whitespace run that starts at index a
RECURSIVE SpaceRun(_, _)
SpaceRun(s, a) ==
    IF a + 1 <= Len(s) /\ s[a + 1] \in Whitespace THEN SpaceRun(s, a + 1) ELSE a

\* the payload matched greedily, (.*) for (.*?): the match ends at the last :::
\* of the line
LastCloseOnLine(s, i, found) ==
    LET n == IndexFrom(s, Newline, i)
        eol == IF n = 0 THEN Len(s) + 1 ELSE n
        hits == {j \in i..(eol - 1) : HasAt(s, j, CloseMark)}
    IN  IF hits = {} THEN found ELSE CHOOSE j \in hits : \A k \in hits : k <= j

InlineTailGreedy(s, a) ==
    IF a <= Len(s) /\ s[a] \in Whitespace
    THEN LET w == SpaceRun(s, a)
             c == LastCloseOnLine(s, w + 1, 0)
         IN  IF c = 0 THEN 0 ELSE c + 2
    ELSE 0

\* the payload matched with . taking a newline too, as under (?s)
InlineTailDotAll(s, a) ==
    IF a <= Len(s) /\ s[a] \in Whitespace
    THEN LET c == IndexFrom(s, CloseMark, SpaceRun(s, a) + 1)
         IN  IF c = 0 THEN 0 ELSE c + 2
    ELSE 0

\* \s+(.*?)::: tried at index a: \s+ is greedy, . does not match a newline
\* and .*? is lazy, so the match ends at the first ::: after the whitespace
\* run, if no newline lies before it (giving whitespace back to .*? adds no
\* match: the characters given back are not colons, and a newline among them
\* cannot be matched by .).  The index of the last colon, 0 when it fails.
InlineTail(s, a) ==
    IF a <= Len(s) /\ s[a] \in Whitespace
    THEN LET w == SpaceRun(s, a)
             c == IndexFrom(s, CloseMark, w + 1)
         IN  IF c = 0 THEN 0
             ELSE IF Contains(SubSeq(s, w + 1, c - 1), Newline) THEN 0
             ELSE c + 2
    ELSE 0

\* inlineRe matched at index i
inlineRe(s, i) ==
    IF ~HasAt(s, i, OpenMark) THEN NoMatch
    ELSE LET g == AttrGroup(s, i + 7)
             withAttrs == IF g.taken THEN InlineTail(s, g.next) ELSE 0
             without == InlineTail(s, i + 7)
         IN  IF withAttrs # 0 THEN [end |-> withAttrs, attrs |-> g.attrs]
             ELSE IF without # 0 THEN [end |-> without, attrs |-> <<>>]
             ELSE NoMatch

\* the conversion that keeps the = between key and value
attrMapKeepEquals(parts1) ==
    LET attrs == Split(parts1, Semi)
        kvs == [i \in 1..Len(attrs) |-> Split(attrs[i], Equals)]
        two == SelectSeq(kvs, LAMBDA kv : Len(kv) = 2)
    IN  [i \in 1..Len(two) |-> two[i][1] \o Equals \o two[i][2]]

\* the conversion that leaves out the keys text and placeholder
attrMapDropReserved(parts1) ==
    LET attrs == Split(parts1, Semi)
        kvs == [i \in 1..Len(attrs) |-> Split(attrs[i], Equals)]
        two == SelectSeq(kvs, LAMBDA kv :
                   Len(kv) = 2 /\ kv[1] \notin {<<"t", "e", "x", "t">>,
                       <<"p", "l", "a", "c", "e", "h", "o", "l", "d", "e", "r">>})
    IN  [i \in 1..Len(two) |-> two[i][1] \o Colon \o two[i][2]]

\* the attribute conversion of both callbacks: foo=bar;baz=qux to foo:bar,baz:qux
attrMap(parts1) ==
    LET attrs == Split(parts1, Semi)
        kvs == [i \in 1..Len(attrs) |-> Split(attrs[i], Equals)]
        two == SelectSeq(kvs, LAMBDA kv : Len(kv) = 2)
    IN  [i \in 1..Len(two) |-> two[i][1] \o Colon \o two[i][2]]

\* the value a callback returns for a match whose first group is parts1
Placeholder(open, parts1) ==
    IF parts1 # <<>> /\ attrMap(parts1) # <<>>
    THEN open \o LBrace \o Join(attrMap(parts1), Comma) \o RBrace \o RBracket
    ELSE open \o RBracket

\* blockRe.ReplaceAllStringFunc from index i on
RECURSIVE ReplaceBlocks(_, _)
ReplaceBlocks(s, i) ==
    LET j == Leftmost({k \in i..Len(s) : blockRe(s, k).end # 0})
        m == blockRe(s, j)
    IN  IF j = 0 THEN SubSeq(s, i, Len(s))
        ELSE SubSeq(s, i, j - 1) \o Placeholder(BlockOpen, m.attrs)
                 \o ReplaceBlocks(s, m.end + 1)

\* inlineRe.ReplaceAllStringFunc from index i on
RECURSIVE ReplaceInlines(_, _)
ReplaceInlines(s, i) ==
    LET j == Leftmost({k \in i..Len(s) : inlineRe(s, k).end # 0})
        m == inlineRe(s, j)
    IN  IF j = 0 THEN SubSeq(s, i, Len(s))
        ELSE SubSeq(s, i, j - 1) \o Placeholder(InlineOpen, m.attrs)
                 \o ReplaceInlines(s, m.end + 1)

ProcessHiddenContent(c) == ReplaceInlines(ReplaceBlocks(c, 1), 1)

----------------------------------------------------------------------------
(* ProcessContentSearchFilter *)

ContainsOpen == <<"c", "o", "n", "t", "e", "n", "t", ".", "c", "o", "n", "t", "a", "i", "n", "s", "(", "\"">>
ContainsClose == <<"\"", ")">>

\* \[hide-...(?:\{[^}]*\})?\] matched at index i, open being the literal head:
\* the index of the closing bracket, 0 when there is no match
PlaceholderEnd(s, i, open) ==
    IF ~HasAt(s, i, open) THEN 0
    ELSE LET p == i + Len(open)
             g == AttrGroup(s, p)
         IN  IF g.taken /\ HasAt(s, g.next, RBracket) THEN g.next
             ELSE IF HasAt(s, p, RBracket) THEN p
             ELSE 0

inlinePlaceholderRe(s, i) == PlaceholderEnd(s, i, InlineOpen)
blockPlaceholderRe(s, i) == PlaceholderEnd(s, i, BlockOpen)

\* inlinePlaceholderRe.ReplaceAllString(content, "") from index i on
RECURSIVE RemoveInline(_, _)
RemoveInline(s, i) ==
    LET j == Leftmost({k \in i..Len(s) : inlinePlaceholderRe(s, k) # 0})
    IN  IF j = 0 THEN SubSeq(s, i, Len(s))
        ELSE SubSeq(s, i, j - 1) \o RemoveInline(s, inlinePlaceholderRe(s, j) + 1)

\* blockPlaceholderRe.ReplaceAllString(content, "") from index i on
RECURSIVE RemoveBlock(_, _)
RemoveBlock(s, i) ==
    LET j == Leftmost({k \in i..Len(s) : blockPlaceholderRe(s, k) # 0})
    IN  IF j = 0 THEN SubSeq(s, i, Len(s))
        ELSE SubSeq(s, i, j - 1) \o RemoveBlock(s, blockPlaceholderRe(s, j) + 1)

removeHiddenPlaceholders(c) == RemoveBlock(RemoveInline(c, 1), 1)

\* index of the last character of the run of non-quote characters from index a
\* on, a - 1 when the run is empty
RECURSIVE NonQuoteRun(_, _)
NonQuoteRun(s, a) ==
    IF a <= Len(s) /\ s[a] # "\"" THEN NonQuoteRun(s, a + 1) ELSE a - 1

\* contentSearchRegex, content\.contains\("([^"]+)"\), matched at index i:
\* [^"]+ is greedy and must be followed by a quote, so it is the whole run
contentSearchRegex(s, i) ==
    IF ~HasAt(s, i, ContainsOpen) THEN [end |-> 0, keyword |-> <<>>]
    ELSE LET a == i + Len(ContainsOpen)
             r == NonQuoteRun(s, a)
         IN  IF r >= a /\ HasAt(s, r + 1, ContainsClose)
             THEN [end |-> r + 2, keyword |-> SubSeq(s, a, r)]
             ELSE [end |-> 0, keyword |-> <<>>]

\* contentSearchRegex.FindAllStringSubmatch(filter, -1), group 1 of each match
RECURSIVE FindAllKeywords(_, _)
FindAllKeywords(filter, i) ==
    LET j == Leftmost({k \in i..Len(filter) : contentSearchRegex(filter, k).end # 0})
        m == contentSearchRegex(filter, j)
    IN  IF j = 0 THEN <<>>
        ELSE <<m.keyword>> \o FindAllKeywords(filter, m.end + 1)

\* the keywords of all filters, in order
RECURSIVE allKeywords(_)
allKeywords(fs) ==
    IF fs = <<>> THEN <<>>
    ELSE FindAllKeywords(Head(fs), 1) \o allKeywords(Tail(fs))

\* the filter that is satisfied by any one keyword
ProcessContentSearchFilterAny(c, fs) ==
    LET kws == allKeywords(fs)
        visibleContent == removeHiddenPlaceholders(c)
    IN  IF kws = <<>> THEN TRUE
        ELSE \E i \in 1..Len(kws) : Contains(visibleContent, kws[i])

ProcessContentSearchFilter(c, fs) ==
    LET kws == allKeywords(fs)
        visibleContent == removeHiddenPlaceholders(c)
    IN  IF kws = <<>> THEN TRUE
        ELSE \A i \in 1..Len(kws) : Contains(visibleContent, kws[i])

----------------------------------------------------------------------------
(* What the author types: the directive syntax of the documentation *)

\* {key=value;key2=value2}, nothing for no attributes
AttrBlob(pairs) ==
    IF pairs = <<>> THEN <<>>
    ELSE LBrace
         \o Join([i \in 1..Len(pairs) |-> pairs[i][1] \o Equals \o pairs[i][2]], Semi)
         \o RBrace

\* :::hide{attrs} payload:::
InlineDirective(pairs, payload) ==
    OpenMark \o AttrBlob(pairs) \o Space \o payload \o CloseMark

\* the opener line, the interior lines and the closer line
BlockDirective(pairs, lines) ==
    Join(<<OpenMark \o AttrBlob(pairs)>> \o lines \o <<CloseMark>>, Newline)

kText == <<"t", "e", "x", "t">>
kPlaceholder == <<"p", "l", "a", "c", "e", "h", "o", "l", "d", "e", "r">>
NoteDirective == <<":", ":", ":", "n", "o", "t", "e", " ", "v", ":", ":", ":">>
NestedValue == <<":", ":", ":", "h", "i", "d", "e", " ", "v", ":", ":", ":">>

\* the payload of every directive below is made of "s", which occurs nowhere else
Secret == "s"

Text(str) == [kind |-> "text", attrs |-> <<>>, secret |-> <<>>, text |-> str]
Inline(pairs) ==
    [kind |-> "inline", attrs |-> pairs, secret |-> <<<<Secret>>>>,
     text |-> InlineDirective(pairs, <<Secret>>)]
Block(pairs, lines) ==
    [kind |-> "block", attrs |-> pairs, secret |-> lines,
     text |-> BlockDirective(pairs, lines)]

PartTable ==
    [ v        |-> Text(<<"v">>),
      nl       |-> Text(Newline),
      token    |-> Text(InlineOpen \o RBracket),
      note     |-> Text(NoteDirective),
      opener   |-> [Text(OpenMark) EXCEPT !.kind = "stray"],
      closer   |-> [Text(CloseMark) EXCEPT !.kind = "stray"],
      inline   |-> Inline(<<>>),
      inlineAB |-> Inline(<< <<<<"a">>, <<"1">>>>, <<<<"b">>, <<"2">>>> >>),
      inlineWS |-> Inline(<< <<<<" ", "a", " ">>, <<" ", "1", " ">>>> >>),
      inlineRK |-> Inline(<< <<kText, <<"t">>>>, <<kPlaceholder, <<"p">>>> >>),
      inlineNV |-> Inline(<< <<<<"a">>, NestedValue>> >>),
      block    |-> Block(<<>>, <<<<Secret>>>>),
      blockAB  |-> Block(<< <<<<"a">>, <<"1">>>>, <<<<"b">>, <<"2">>>> >>,
                         <<<<Secret>>, <<Secret, Secret>>>>),
      block0   |-> Block(<<>>, <<>>) ]

PartNames == DOMAIN PartTable

----------------------------------------------------------------------------
(* The encoder run: the author types a memo, the server encodes it, and the *)
(* stored text is encoded once more                                          *)

Init ==
    /\ content = <<>>
    /\ typed = <<>>
    /\ pc = "compose"
    /\ processedContent = <<>>
    /\ reprocessed = <<>>
    /\ filters = <<>>
    /\ keywords = <<>>
    /\ matched = FALSE
    /\ WebIdle

Type(p) ==
    /\ pc = "compose"
    /\ Len(typed) < MaxParts
    /\ typed' = Append(typed, p)
    /\ content' = content \o PartTable[p].text
    /\ UNCHANGED <<pc, processedContent, reprocessed, filters, keywords, matched, webVars>>

Encode ==
    /\ pc = "compose"
    /\ processedContent' = ProcessHiddenContent(content)
    /\ pc' = "encoded"
    /\ UNCHANGED <<content, typed, reprocessed, filters, keywords, matched, webVars>>

ReEncode ==
    /\ pc = "encoded"
    /\ reprocessed' = ProcessHiddenContent(processedContent)
    /\ pc' = "reencoded"
    /\ UNCHANGED <<content, typed, processedContent, filters, keywords, matched, webVars>>

Next ==
    \/ \E p \in PartNames : Type(p)
    \/ Encode
    \/ ReEncode

Spec == Init /\ [][Next]_vars

----------------------------------------------------------------------------
(* The search run: a stored memo content and the filter strings of a query *)

AttrAB == <<"{", "a", ":", "b", "}">>
HideInlineWord == <<"h", "i", "d", "e", "-", "i", "n", "l", "i", "n", "e">>
HideBlockWord == <<"h", "i", "d", "e", "-", "b", "l", "o", "c", "k">>
CreatorClause == <<"c", "r", "e", "a", "t", "o", "r", "_", "i", "d", " ", "=", "=", " ", "1">>
AndOp == <<" ", "&", "&", " ">>

\* content.contains("keyword")
Clause(keyword) == ContainsOpen \o keyword \o ContainsClose

ContentTable ==
    [ ab         |-> <<"a", "b">>,
      hideDash   |-> <<"h", "i", "d", "e", "-">>,
      inlineWord |-> <<"i", "n", "l", "i", "n", "e">>,
      tokInline  |-> InlineOpen \o RBracket,
      tokBlock   |-> BlockOpen \o AttrAB \o RBracket ]

\* each filter with the keywords of its well-formed content.contains clauses
FilterTable ==
    [ creator   |-> [text |-> CreatorClause, keywords |-> <<>>],
      ab        |-> [text |-> Clause(<<"a", "b">>), keywords |-> <<<<"a", "b">>>>],
      upper     |-> [text |-> Clause(<<"A", "b">>), keywords |-> <<<<"A", "b">>>>],
      ba        |-> [text |-> Clause(<<"b", "a">>), keywords |-> <<<<"b", "a">>>>],
      inline    |-> [text |-> Clause(HideInlineWord), keywords |-> <<HideInlineWord>>],
      block     |-> [text |-> Clause(HideBlockWord), keywords |-> <<HideBlockWord>>],
      abAndHide |-> [text |-> CreatorClause \o AndOp \o Clause(<<"a", "b">>)
                              \o AndOp \o Clause(<<"h", "i", "d", "e", "-">>),
                     keywords |-> <<<<"a", "b">>, <<"h", "i", "d", "e", "-">>>>] ]

SearchInit ==
    /\ content = <<>>
    /\ typed = <<>>
    /\ pc = "stored"
    /\ processedContent = <<>>
    /\ reprocessed = <<>>
    /\ filters = <<>>
    /\ keywords = <<>>
    /\ matched = FALSE
    /\ WebIdle

\* the memo is stored before the query is built
Store(p) ==
    /\ pc = "stored"
    /\ filters = <<>>
    /\ Len(typed) < MaxContentParts
    /\ typed' = Append(typed, p)
    /\ content' = content \o ContentTable[p]
    /\ UNCHANGED <<pc, processedContent, reprocessed, filters, keywords, matched, webVars>>

AddFilter(f) ==
    /\ pc = "stored"
    /\ Len(filters) < MaxFilters
    /\ filters' = Append(filters, FilterTable[f].text)
    /\ keywords' = keywords \o FilterTable[f].keywords
    /\ UNCHANGED <<content, typed, pc, processedContent, reprocessed, matched, webVars>>

Search ==
    /\ pc = "stored"
    /\ matched' = ProcessContentSearchFilter(content, filters)
    /\ pc' = "searched"
    /\ UNCHANGED <<content, typed, processedContent, reprocessed, filters, keywords, webVars>>

SearchNext ==
    \/ \E p \in DOMAIN ContentTable : Store(p)
    \/ \E f \in DOMAIN FilterTable : AddFilter(f)
    \/ Search

SearchSpec == SearchInit /\ [][SearchNext]_vars

----------------------------------------------------------------------------
(* resolve.ts: the regular expressions and extractAttributes *)

\* a value that is undefined in JavaScript
Undefined == <<"undefined">>

\* \w among the characters used
WordChars ==
    {"a", "b", "c", "d", "e", "f", "g", "h", "i", "j", "k", "l", "m", "n", "o", "p",
     "q", "r", "s", "t", "u", "v", "w", "x", "y", "z", "A", "B", "0", "1", "2", "_"}

\* \s of JavaScript among the characters used
JsSpace == {" ", "\t", "\n", "\r", "\f"}

\* the characters . does not match
LineTerminators == {"\n", "\r"}

Rightmost(hits) == CHOOSE j \in hits : \A k \in hits : k <= j

\* String.prototype.trim
trim(str) ==
    LET keep == {i \in 1..Len(str) : str[i] \notin JsSpace}
    IN  IF keep = {} THEN <<>> ELSE SubSeq(str, Leftmost(keep), Rightmost(keep))

\* \w+ from index p on: the index of the last character of the run, p - 1 when
\* there is none
WordRun(s, p) ==
    Leftmost({k \in p..(Len(s) + 1) : k > Len(s) \/ s[k] \notin WordChars}) - 1

NoHead == [ok |-> FALSE, action |-> <<>>, attributes |-> Undefined, next |-> 0]

\* :::(?<action>\w+)(?<attributes>\{[^}]*\})? at index i.  \w+ is followed by a
\* character that is not a word character, so it is the whole run; after the run
\* the group is taken whenever a { with a later } stands there (what follows the
\* group in each expression cannot start with {)
DirectiveHead(s, i) ==
    IF ~HasAt(s, i, CloseMark) THEN NoHead
    ELSE LET w == WordRun(s, i + 3)
             g == AttrGroup(s, w + 1)
         IN  IF w < i + 3 THEN NoHead
             ELSE [ok |-> TRUE, action |-> SubSeq(s, i + 3, w),
                   attributes |-> IF g.taken THEN SubSeq(s, w + 1, g.next - 1)
                                  ELSE Undefined,
                   next |-> g.next]

NoInline == [end |-> 0, action |-> <<>>, attributes |-> Undefined, content |-> <<>>]

\* reg.inlineOringal (and reg.inlineOringalSplit) matched at index i: one \s,
\* then .*? grows until \s?::: follows, never over a line terminator
inlineOringal(s, i) ==
    LET h == DirectiveHead(s, i)
        r == h.next + 1
        stops == {e \in r..Len(s) :
                     /\ \A k \in r..(e - 1) : s[k] \notin LineTerminators
                     /\ \/ HasAt(s, e, CloseMark)
                        \/ s[e] \in JsSpace /\ HasAt(s, e + 1, CloseMark)}
        e == Leftmost(stops)
    IN  IF ~h.ok THEN NoInline
        ELSE IF h.next > Len(s) THEN NoInline
        ELSE IF s[h.next] \notin JsSpace THEN NoInline
        ELSE IF e = 0 THEN NoInline
        ELSE [end |-> IF HasAt(s, e, CloseMark) THEN e + 2 ELSE e + 3,
              action |-> h.action, attributes |-> h.attributes,
              content |-> SubSeq(s, r, e - 1)]

InlineWord == <<"i", "n", "l", "i", "n", "e">>
BlockWord == <<"b", "l", "o", "c", "k">>

NoRaw == [end |-> 0, action |-> <<>>, mode |-> <<>>, attributes |-> Undefined]

\* reg.raw (and reg.rawSplit) matched at index i
raw(s, i) ==
    LET w == WordRun(s, i + 1)
        mode == IF HasAt(s, w + 2, InlineWord) THEN InlineWord
                ELSE IF HasAt(s, w + 2, BlockWord) THEN BlockWord
                ELSE <<>>
        p == w + 2 + Len(mode)
        g == AttrGroup(s, p)
    IN  IF ~HasAt(s, i, <<"[">>) THEN NoRaw
        ELSE IF w < i + 1 THEN NoRaw
        ELSE IF ~HasAt(s, w + 1, <<"-">>) THEN NoRaw
        ELSE IF mode = <<>> THEN NoRaw
        ELSE IF g.taken /\ HasAt(s, g.next, RBracket)
        THEN [end |-> g.next, action |-> SubSeq(s, i + 1, w), mode |-> mode,
              attributes |-> SubSeq(s, p, g.next - 1)]
        ELSE IF HasAt(s, p, RBracket)
        THEN [end |-> p, action |-> SubSeq(s, i + 1, w), mode |-> mode,
              attributes |-> Undefined]
        ELSE NoRaw

\* reg.blockOringalBegin matched against the whole of s
blockOringalBegin(s) ==
    LET h == DirectiveHead(s, 1)
    IN  IF h.ok /\ h.next = Len(s) + 1 THEN h ELSE NoHead

\* reg.blockOringalEnd matched against the whole of s
blockOringalEnd(s) == s = CloseMark

\* .replace(/^\{|\}$/g, "")
StripBraces(t) ==
    LET a == IF t # <<>> /\ t[1] = "{" THEN Tail(t) ELSE t
    IN  IF a # <<>> /\ a[Len(a)] = "}" THEN SubSeq(a, 1, Len(a) - 1) ELSE a

\* text.split(separator).map((pair) => pair.split(keyValueSeparator).map(trim))
SplitPairs(text, separator, keyValueSeparator) ==
    LET ps == Split(text, separator)
    IN  [i \in 1..Len(ps) |->
            LET kv == Split(ps[i], keyValueSeparator)
            IN  [j \in 1..Len(kv) |-> trim(kv[j])]]

\* Object.fromEntries: a key keeps the place of its first entry and the value of
\* its last one; an entry without a second element has the value undefined
fromEntries(pairs) ==
    LET value(i) == IF Len(pairs[i]) >= 2 THEN pairs[i][2] ELSE Undefined
        same(i) == {k \in 1..Len(pairs) : pairs[k][1] = pairs[i][1]}
        firsts == SelectSeq([i \in 1..Len(pairs) |-> i], LAMBDA i : i = Leftmost(same(i)))
    IN  [n \in 1..Len(firsts) |->
            <<pairs[firsts[n]][1], value(Rightmost(same(firsts[n])))>>]

\* extractAttributes of resolve.ts: the object as a sequence of <<key, value>>
extractAttributes(rawText, separator, keyValueSeparator) ==
    IF rawText = Undefined \/ rawText = <<>> THEN <<>>
    ELSE fromEntries(SplitPairs(StripBraces(trim(rawText)), separator, keyValueSeparator))

\* attrs[key]
Get(attrs, key) ==
    LET at1 == {i \in 1..Len(attrs) : attrs[i][1] = key}
    IN  IF at1 = {} THEN Undefined ELSE attrs[Leftmost(at1)][2]

\* const { text, placeholder, ...restAttr } = attrs
restAttr(attrs) == SelectSeq(attrs, LAMBDA kv : kv[1] \notin {kText, kPlaceholder})

\* text || placeholder
textOrPlaceholder(attrs) ==
    IF Get(attrs, kText) \notin {Undefined, <<>>} THEN Get(attrs, kText)
    ELSE Get(attrs, kPlaceholder)

\* placeholder || text
placeholderOrText(attrs) ==
    IF Get(attrs, kPlaceholder) \notin {Undefined, <<>>} THEN Get(attrs, kPlaceholder)
    ELSE Get(attrs, kText)

----------------------------------------------------------------------------
(* resolve.ts: resolveNode *)

\* A node keeps what resolveNode reads or writes: its type, the text content (of
\* a text node; of the first child of a paragraph, undefined when that child is
\* not a text node), and for the hidden nodes the attributes, the placeholder and
\* the children.  id tells the node objects of the documents apart.
Node(type, c) ==
    [type |-> type, content |-> c, attrs |-> <<>>, placeholder |-> Undefined,
     children |-> <<>>, id |-> <<>>]

TextNode(c) == Node("TEXT", c)

HiddenInline(rest, c, placeholder) ==
    [Node("CUSTOM_HIDDEN_INLINE", c) EXCEPT !.attrs = rest, !.placeholder = placeholder]

HiddenBlock(rest, children, placeholder) ==
    [Node("CUSTOM_HIDDEN_BLOCK", Undefined) EXCEPT
        !.attrs = rest, !.placeholder = placeholder, !.children = children]

Hide == <<"h", "i", "d", "e">>

\* the node made of one match of reg.inlineOringal
inlineNode(m) ==
    LET attrs == extractAttributes(m.attributes, Semi, Equals)
    IN  IF m.action = Hide
        THEN HiddenInline(restAttr(attrs), m.content, placeholderOrText(attrs))
        ELSE TextNode(m.content)

\* content.split(reg.inlineOringalSplit).filter(Boolean).map(...) from index i on
RECURSIVE inlineNodes(_, _)
inlineNodes(s, i) ==
    LET j == Leftmost({k \in i..Len(s) : inlineOringal(s, k).end # 0})
        m == inlineOringal(s, j)
        gap == IF j = 0 THEN SubSeq(s, i, Len(s)) ELSE SubSeq(s, i, j - 1)
        before == IF gap = <<>> THEN <<>> ELSE <<TextNode(gap)>>
    IN  IF j = 0 THEN before
        ELSE before \o <<inlineNode(m)>> \o inlineNodes(s, m.end + 1)

\* the node made of one match of reg.raw
rawNode(m) ==
    LET attrs == extractAttributes(m.attributes, Comma, Colon)
    IN  IF m.action # Hide THEN TextNode(<<>>)
        ELSE IF m.mode = InlineWord
        THEN HiddenInline(restAttr(attrs), <<>>, placeholderOrText(attrs))
        ELSE HiddenBlock(restAttr(attrs), <<>>, placeholderOrText(attrs))

\* content.split(reg.rawSplit).filter(Boolean).map(...) from index i on
RECURSIVE rawNodes(_, _)
rawNodes(s, i) ==
    LET j == Leftmost({k \in i..Len(s) : raw(s, k).end # 0})
        m == raw(s, j)
        gap == IF j = 0 THEN SubSeq(s, i, Len(s)) ELSE SubSeq(s, i, j - 1)
        before == IF gap = <<>> THEN <<>> ELSE <<TextNode(gap)>>
    IN  IF j = 0 THEN before
        ELSE before \o <<rawNode(m)>> \o rawNodes(s, m.end + 1)

\* what a call returns: null, one node, or an array of nodes
Null == [kind |-> "null", nodes |-> <<>>]
One(node) == [kind |-> "node", nodes |-> <<node>>]
Many(nodes) == [kind |-> "array", nodes |-> nodes]

\* blockAction as the module is loaded
FreshBlockAction == [flag |-> FALSE, action |-> <<>>, attrs |-> <<>>, nodes |-> <<>>]

\* blockAction.nodes.add(node): a Set keeps insertion order and one entry per object
SetAdd(nodes, node) ==
    IF \E i \in 1..Len(nodes) : nodes[i] = node THEN nodes ELSE Append(nodes, node)

\* the end of resolveNode without the test of blockAction.flag
fallbackCollecting(ba, node) ==
    [blockAction |-> [ba EXCEPT !.nodes = SetAdd(@, node)], result |-> Null]

\* the end of resolveNode: collect the node while a block is open, return it otherwise
fallback(ba, node) ==
    IF ba.flag
    THEN [blockAction |-> [ba EXCEPT !.nodes = SetAdd(@, node)], result |-> Null]
    ELSE [blockAction |-> ba, result |-> One(node)]

\* the opener test with the test of the flag left out
opensWhileCollecting(ba, c) == blockOringalBegin(c).ok

\* !blockAction.flag && childText.match(reg.blockOringalBegin)
opens(ba, c) == ~ba.flag /\ blockOringalBegin(c).ok

\* the closer branch with blockAction.nodes.clear() left out
closeBlockKeepNodes(ba) == [ba EXCEPT !.flag = FALSE]

\* blockAction.flag = false; ...; blockAction.nodes.clear()
closeBlock(ba) == [ba EXCEPT !.flag = FALSE, !.nodes = <<>>]

\* resolveNode(node) with blockAction = ba: the new blockAction and the value returned
resolveNode(ba, node) ==
    LET c == node.content
        empty == c = Undefined \/ c = <<>>
        begin == blockOringalBegin(c)
        closed == closeBlock(ba)
    IN  IF node.type = "TEXT"
        THEN IF empty THEN [blockAction |-> ba, result |-> One(node)]
             ELSE IF \E k \in 1..Len(c) : inlineOringal(c, k).end # 0
             THEN [blockAction |-> ba, result |-> Many(inlineNodes(c, 1))]
             ELSE IF \E k \in 1..Len(c) : raw(c, k).end # 0
             THEN [blockAction |-> ba, result |-> Many(rawNodes(c, 1))]
             ELSE fallback(ba, node)
        ELSE IF node.type = "PARAGRAPH"
        THEN IF empty THEN [blockAction |-> ba, result |-> One(node)]
             ELSE IF opens(ba, c)
             THEN IF ba.nodes = <<>>
                  THEN [blockAction |->
                            [ba EXCEPT !.flag = TRUE, !.action = begin.action,
                                       !.attrs = extractAttributes(begin.attributes,
                                                                   Semi, Equals)],
                        result |-> Null]
                  ELSE fallback(ba, node)
             ELSE IF ba.flag /\ blockOringalEnd(c)
             THEN IF ba.action = Hide
                  THEN [blockAction |-> closed,
                        result |-> One(HiddenBlock(restAttr(ba.attrs), ba.nodes,
                                                   placeholderOrText(ba.attrs)))]
                  ELSE fallback(closed, node)
             ELSE fallback(ba, node)
        ELSE fallback(ba, node)

----------------------------------------------------------------------------
(* The render run: the units of two documents are handed to resolveNode one *)
(* by one, each document in its own order                                    *)

\* units of the first document
MaxUnits == 3
\* units of the second document
MaxOtherUnits == 1

OpenerAttrs == <<"{", "t", "e", "x", "t", "=", "t", ";", "a", "=", "1", "}">>

UnitTable ==
    [ pOpen   |-> Node("PARAGRAPH", OpenMark),
      pOpenA  |-> Node("PARAGRAPH", OpenMark \o OpenerAttrs),
      pNote   |-> Node("PARAGRAPH", <<":", ":", ":", "n", "o", "t", "e">>),
      pClose  |-> Node("PARAGRAPH", CloseMark),
      pV      |-> Node("PARAGRAPH", <<"v">>),
      pBold   |-> Node("PARAGRAPH", Undefined),
      br      |-> Node("LINE_BREAK", Undefined),
      tInline |-> TextNode(InlineDirective(<<>>, <<Secret>>)),
      tV      |-> TextNode(<<"v">>) ]

\* the units the second document is made of
OtherUnits == {"pClose", "pV"}

DocNames == {"A", "B"}

UnitsOf(d) == IF d = "A" THEN DOMAIN UnitTable ELSE OtherUnits
MaxLenOf(d) == IF d = "A" THEN MaxUnits ELSE MaxOtherUnits

ResolveInit ==
    /\ content = <<>>
    /\ typed = <<>>
    /\ pc = "render"
    /\ processedContent = <<>>
    /\ reprocessed = <<>>
    /\ filters = <<>>
    /\ keywords = <<>>
    /\ matched = FALSE
    /\ resolved = <<>>
    /\ remarked = <<>>
    /\ docs = [d \in DocNames |-> <<>>]
    /\ at = [d \in DocNames |-> 0]
    /\ results = [d \in DocNames |-> <<>>]
    /\ blockAction = FreshBlockAction
    /\ tree = <<>>
    /\ newTree = <<>>
    /\ extracted = <<>>
    /\ cache = <<>>
    /\ accessOrder = <<>>
    /\ strippedContent = <<>>

\* a block opened inside a block and closed once: the first document may run
\* one unit over MaxUnits to close it a second time
NestedOnce(doc) ==
    \E i, j, k \in 1..Len(doc) :
        /\ i < j /\ j < k
        /\ doc[i].type = "PARAGRAPH" /\ doc[i].content # Undefined
        /\ blockOringalBegin(doc[i].content).ok
        /\ doc[j].type = "PARAGRAPH" /\ doc[j].content # Undefined
        /\ blockOringalBegin(doc[j].content).ok
        /\ doc[k].type = "PARAGRAPH" /\ doc[k].content = CloseMark

MayAdd(d, u) ==
    \/ Len(docs[d]) < MaxLenOf(d)
    \/ d = "A" /\ Len(docs[d]) = MaxUnits /\ u = "pClose" /\ NestedOnce(docs[d])

\* the documents exist before the first unit is rendered
Author(d, u) ==
    /\ pc = "render"
    /\ \A e \in DocNames : at[e] = 0
    /\ MayAdd(d, u)
    /\ docs' = [docs EXCEPT ![d] =
                   Append(@, [UnitTable[u] EXCEPT !.id = <<d, Len(docs[d]) + 1>>])]
    /\ UNCHANGED <<goVars, resolved, remarked, at, results, blockAction, tree, newTree, sideVars>>

\* the renderer hands the next unit of document d to resolveNode
Resolve(d) ==
    /\ pc = "render"
    /\ at[d] < Len(docs[d])
    /\ LET r == resolveNode(blockAction, docs[d][at[d] + 1])
       IN  /\ blockAction' = r.blockAction
           /\ results' = [results EXCEPT ![d] = Append(@, r.result)]
    /\ at' = [at EXCEPT ![d] = @ + 1]
    /\ UNCHANGED <<goVars, resolved, remarked, docs, tree, newTree, sideVars>>

ResolveNext ==
    \/ \E d \in DocNames : \E u \in UnitsOf(d) : Author(d, u)
    \/ \E d \in DocNames : Resolve(d)

ResolveSpec == ResolveInit /\ [][ResolveNext]_vars

----------------------------------------------------------------------------
(* remarkHiddenContent: the pass over the text nodes *)

\* extractAttributes of the remark plugin: only the pairs of two elements count
remarkExtractAttributes(attrString, separator, keyValueSeparator) ==
    IF attrString = Undefined \/ attrString = <<>> THEN <<>>
    ELSE LET text == StripBraces(trim(attrString))
         IN  IF text = <<>> THEN <<>>
             ELSE fromEntries(SelectSeq(SplitPairs(text, separator, keyValueSeparator),
                                        LAMBDA pair : Len(pair) = 2))

\* reg.inlineOriginal matched at index i: \s+ takes the whole whitespace run, .*?
\* grows, never over a line terminator, until \s*::: follows (giving whitespace
\* back to .*? leads to no other match: \s* takes it again)
inlineOriginal(s, i) ==
    LET h == DirectiveHead(s, i)
        w == SpaceRun(s, h.next)
        stops == {e \in (w + 1)..Len(s) :
                     /\ \A k \in (w + 1)..(e - 1) : s[k] \notin LineTerminators
                     /\ HasAt(s, SpaceRun(s, e - 1) + 1, CloseMark)}
        e == Leftmost(stops)
    IN  IF ~h.ok THEN NoInline
        ELSE IF h.next > Len(s) THEN NoInline
        ELSE IF s[h.next] \notin JsSpace THEN NoInline
        ELSE IF e = 0 THEN NoInline
        ELSE [end |-> SpaceRun(s, e - 1) + 3,
              action |-> h.action, attributes |-> h.attributes,
              content |-> SubSeq(s, w + 1, e - 1)]

\* reg.processed matched at index i
processed(s, i) == raw(s, i)

\* x || ""
OrEmpty(x) == IF x = Undefined THEN <<>> ELSE x

MdText(value) == Node("text", value)

MdHiddenInline(rest, c, placeholder) ==
    [Node("hiddenInline", c) EXCEPT !.attrs = rest, !.placeholder = placeholder]

MdHiddenBlock(rest, children, placeholder) ==
    [Node("hiddenBlock", Undefined) EXCEPT
        !.attrs = rest, !.placeholder = placeholder, !.children = children]

\* the node pushed for one match of reg.inlineOriginal
remarkInlineNode(s, i, m) ==
    LET attrs == remarkExtractAttributes(OrEmpty(m.attributes), Semi, Equals)
    IN  IF m.action = Hide
        THEN MdHiddenInline(restAttr(attrs), m.content, OrEmpty(placeholderOrText(attrs)))
        ELSE MdText(SubSeq(s, i, m.end))

\* the node pushed for one match of reg.processed
remarkProcessedNode(s, i, m) ==
    LET attrs == remarkExtractAttributes(OrEmpty(m.attributes), Comma, Colon)
    IN  IF m.action # Hide THEN MdText(SubSeq(s, i, m.end))
        ELSE IF m.mode = InlineWord
        THEN MdHiddenInline(restAttr(attrs), <<>>, OrEmpty(placeholderOrText(attrs)))
        ELSE MdHiddenBlock(restAttr(attrs), <<>>, OrEmpty(placeholderOrText(attrs)))

\* newNodes of the inlineMatches loop from index i on, the remaining text included
RECURSIVE remarkInlineNodes(_, _)
remarkInlineNodes(s, i) ==
    LET j == Leftmost({k \in i..Len(s) : inlineOriginal(s, k).end # 0})
        m == inlineOriginal(s, j)
        gap == IF j = 0 THEN SubSeq(s, i, Len(s)) ELSE SubSeq(s, i, j - 1)
        before == IF gap = <<>> THEN <<>> ELSE <<MdText(gap)>>
    IN  IF j = 0 THEN before
        ELSE before \o <<remarkInlineNode(s, j, m)>> \o remarkInlineNodes(s, m.end + 1)

\* newNodes of the processedMatches loop from index i on, the remaining text included
RECURSIVE remarkProcessedNodes(_, _)
remarkProcessedNodes(s, i) ==
    LET j == Leftmost({k \in i..Len(s) : processed(s, k).end # 0})
        m == processed(s, j)
        gap == IF j = 0 THEN SubSeq(s, i, Len(s)) ELSE SubSeq(s, i, j - 1)
        before == IF gap = <<>> THEN <<>> ELSE <<MdText(gap)>>
    IN  IF j = 0 THEN before
        ELSE before \o <<remarkProcessedNode(s, j, m)>>
                 \o remarkProcessedNodes(s, m.end + 1)

\* the nodes that stand in place of a text node after the first visit
remarkText(node) ==
    LET s == node.content
    IN  IF \E k \in 1..Len(s) : inlineOriginal(s, k).end # 0 THEN remarkInlineNodes(s, 1)
        ELSE IF \E k \in 1..Len(s) : processed(s, k).end # 0
        THEN remarkProcessedNodes(s, 1)
        ELSE <<node>>

----------------------------------------------------------------------------
(* The view run: a text is encoded by the server, and handed as one text    *)
(* node to resolveNode and to remarkHiddenContent                           *)

\* parts of the text
MaxTextParts == 3

\* :::hide s
\* s:::
InlineNL == OpenMark \o Space \o <<Secret>> \o Newline \o <<Secret>> \o CloseMark

NoteToken == <<"[", "n", "o", "t", "e", "-", "i", "n", "l", "i", "n", "e", "]">>

TextTable ==
    [ v        |-> <<"v">>,
      nl       |-> Newline,
      close    |-> CloseMark,
      note     |-> NoteDirective,
      noteTok  |-> NoteToken,
      inline   |-> InlineDirective(<<>>, <<Secret>>),
      inlineNL |-> InlineNL,
      inlineA  |-> OpenMark \o OpenerAttrs \o Space \o <<Secret>> \o CloseMark,
      tok      |-> InlineOpen \o RBracket,
      tokA     |-> BlockOpen \o <<"{", "t", "e", "x", "t", ":", "t", ",", "a", ":", "1", "}">>
                       \o RBracket ]

TextInit ==
    /\ content = <<>>
    /\ typed = <<>>
    /\ pc = "text"
    /\ processedContent = <<>>
    /\ reprocessed = <<>>
    /\ filters = <<>>
    /\ keywords = <<>>
    /\ matched = FALSE
    /\ WebIdle

TypeText(p) ==
    /\ pc = "text"
    /\ Len(typed) < MaxTextParts
    /\ typed' = Append(typed, p)
    /\ content' = content \o TextTable[p]
    /\ UNCHANGED <<pc, processedContent, reprocessed, filters, keywords, matched, webVars>>

View ==
    /\ pc = "text"
    /\ processedContent' = ProcessHiddenContent(content)
    /\ resolved' = resolveNode(FreshBlockAction, TextNode(content)).result
    /\ remarked' = remarkText(MdText(content))
    /\ pc' = "viewed"
    /\ UNCHANGED <<content, typed, reprocessed, filters, keywords, matched,
                   docs, at, results, blockAction, tree, newTree, sideVars>>

TextNext ==
    \/ \E p \in DOMAIN TextTable : TypeText(p)
    \/ View

TextSpec == TextInit /\ [][TextNext]_vars

----------------------------------------------------------------------------
(* remarkHiddenContent: the whole transformer *)

\* node types that carry a children array
Containers == {"paragraph", "blockquote", "hiddenBlock"}

Parent(type, children) == [Node(type, Undefined) EXCEPT !.children = children]

\* the first visit and its replacements: every text node, at any depth, gives way
\* to the nodes remarkText makes of it
RECURSIVE TextPass(_)
TextPass(children) ==
    Concat([i \in 1..Len(children) |->
               IF children[i].type = "text" THEN remarkText(children[i])
               ELSE IF children[i].type \in Containers
               THEN <<[children[i] EXCEPT !.children = TextPass(@)]>>
               ELSE <<children[i]>>])

\* reg.blockBegin matched against the whole of s
blockBegin(s) == blockOringalBegin(s)

\* reg.blockEnd matched against the whole of s
blockEnd(s) == s = CloseMark

\* findEndMarkerInParagraph: modifiedNode is a sequence, empty for null
findEndMarkerInParagraph(paragraph) ==
    LET n == Len(paragraph.children)
    IN  IF n > 0 /\ paragraph.children[n].type = "text"
              /\ blockEnd(trim(paragraph.children[n].content))
        THEN [found |-> TRUE,
              modifiedNode |->
                  IF n > 1
                  THEN <<[paragraph EXCEPT !.children = SubSeq(@, 1, n - 1)]>>
                  ELSE <<>>]
        ELSE [found |-> FALSE, modifiedNode |-> <<>>]

\* findAndRemoveEndMarker, for a node with at least one child
findAndRemoveEndMarker(node) ==
    LET n == Len(node.children)
        lastChild == node.children[n]
        result == findEndMarkerInParagraph(lastChild)
        kept == SubSeq(node.children, 1, n - 1) \o result.modifiedNode
    IN  IF lastChild.type = "paragraph" /\ result.found
        THEN [found |-> TRUE,
              modifiedNode |-> IF kept = <<>> THEN <<>>
                               ELSE <<[node EXCEPT !.children = kept]>>]
        ELSE [found |-> FALSE, modifiedNode |-> <<>>]

kDescription == <<"d", "e", "s", "c", "r", "i", "p", "t", "i", "o", "n">>
HiddenContentLabel == <<"H", "i", "d", "d", "e", "n", " ", "C", "o", "n", "t", "e", "n", "t">>
DataDescription == <<"d", "a", "t", "a", "-">> \o kDescription

\* the children of a paragraph that are :::hide or :::hide{attrs}, trimmed
OpenerChildren(paragraph) ==
    {k \in 1..Len(paragraph.children) :
        /\ paragraph.children[k].type = "text"
        /\ blockBegin(trim(paragraph.children[k].content)).ok
        /\ blockBegin(trim(paragraph.children[k].content)).action = Hide}

\* the paragraphs the second visit searches a closer for
Searches(children, i) ==
    /\ children[i].type = "paragraph"
    /\ children[i].children # <<>>
    /\ children[i].children[Len(children[i].children)].type = "text"
    /\ OpenerChildren(children[i]) # {}

\* a sibling handed to findAndRemoveEndMarker
Probed(node) == node.type \in Containers

\* the index of the first sibling after i in which the closer is found, 0 when
\* there is none; -1 when a sibling without any child is probed first, which
\* makes findAndRemoveEndMarker read a property of undefined
EndIndex(children, i) ==
    LET stop == Leftmost({j \in (i + 1)..Len(children) :
                    Probed(children[j])
                        /\ (children[j].children = <<>>
                                \/ findAndRemoveEndMarker(children[j]).found)})
    IN  IF stop = 0 THEN 0
        ELSE IF children[stop].children = <<>> THEN -1
        ELSE stop

\* the hidden block node built for the opener paragraph i closed at endIndex
hiddenNode(children, i, endIndex) ==
    LET opener == children[i].children[Leftmost(OpenerChildren(children[i]))]
        attrs == remarkExtractAttributes(
                     OrEmpty(blockBegin(trim(opener.content)).attributes), Semi, Equals)
        rest == SelectSeq(restAttr(attrs), LAMBDA kv : kv[1] # kDescription)
        label == IF OrEmpty(placeholderOrText(attrs)) = <<>> THEN HiddenContentLabel
                 ELSE placeholderOrText(attrs)
        hiddenChildren == SubSeq(children, i + 1, endIndex - 1)
                          \o findAndRemoveEndMarker(children[endIndex]).modifiedNode
    IN  MdHiddenBlock(<<<<DataDescription, OrEmpty(Get(attrs, kDescription))>>>> \o rest,
                      hiddenChildren, label)

\* replacementNodes for the opener paragraph i closed at endIndex
replacementNodes(children, i, endIndex) ==
    LET k == Leftmost(OpenerChildren(children[i]))
        beforeChildren == SubSeq(children[i].children, 1, k - 1)
    IN  (IF beforeChildren = <<>> THEN <<>> ELSE <<Parent("paragraph", beforeChildren)>>)
        \o <<hiddenNode(children, i, endIndex), Node("break", Undefined)>>

\* Array.prototype.splice(start, deleteCount, ...items), start counted from 1
splice(list, start, deleteCount, items) ==
    LET from == IF start > Len(list) + 1 THEN Len(list) + 1 ELSE start
        upto == IF from + deleteCount - 1 > Len(list) THEN Len(list)
                ELSE from + deleteCount - 1
    IN  SubSeq(list, 1, from - 1) \o items \o SubSeq(list, upto + 1, Len(list))

\* blockNodesToReplace.reverse().forEach(splice): the replacements found for the
\* paragraphs at index i and above are applied from the last one to the first
RECURSIVE ApplyFrom(_, _, _)
ApplyFrom(original, current, i) ==
    IF i > Len(original) THEN current
    ELSE LET later == ApplyFrom(original, current, i + 1)
             endIndex == EndIndex(original, i)
         IN  IF Searches(original, i) /\ endIndex > 0
             THEN splice(later, i, endIndex - i + 1,
                         replacementNodes(original, i, endIndex))
             ELSE later

TypeError == <<Node("TypeError", Undefined)>>

\* remarkHiddenContent()(tree), for a root whose openers are among its children:
\* the children of the root afterwards, TypeError when the transformer throws
remarkHiddenContent(children) ==
    LET visited == TextPass(children)
    IN  IF \E i \in 1..Len(visited) : Searches(visited, i) /\ EndIndex(visited, i) = -1
        THEN TypeError
        ELSE ApplyFrom(visited, visited, 1)

----------------------------------------------------------------------------
(* The markdown tree handed to remarkHiddenContent *)

MaxTreeUnits == 3

Paragraph(children) == Parent("paragraph", children)
Blockquote(children) == Parent("blockquote", children)

\* emphasised text with no directive in it
Strong == Node("strong", Undefined)

\* a fenced code block: a node without children
Code == Node("code", <<"v">>)

\* The children of the root an author can produce: opener paragraphs, a closer
\* paragraph, paragraphs and block quotes ending with the closer, plain content,
\* an inline directive, and a block quote with nothing in it.
MdTable ==
    [mOpen |-> Paragraph(<<MdText(OpenMark)>>),
     mOpenA |-> Paragraph(<<MdText(OpenMark \o OpenerAttrs)>>),
     mBoldOpen |-> Paragraph(<<Strong, MdText(<<" ">> \o OpenMark)>>),
     mNote |-> Paragraph(<<MdText(<<":", ":", ":", "n", "o", "t", "e">>)>>),
     mClose |-> Paragraph(<<MdText(CloseMark)>>),
     mBoldClose |-> Paragraph(<<Strong, MdText(<<" ">> \o CloseMark)>>),
     mV |-> Paragraph(<<MdText(<<"v">>)>>),
     mInline |-> Paragraph(<<MdText(OpenMark \o <<" ", "s">> \o CloseMark)>>),
     qClose |-> Blockquote(<<Paragraph(<<MdText(CloseMark)>>)>>),
     qVClose |-> Blockquote(<<Paragraph(<<MdText(<<"v">>)>>),
                              Paragraph(<<MdText(CloseMark)>>)>>),
     qBoldClose |-> Blockquote(<<Paragraph(<<Strong, MdText(<<" ">> \o CloseMark)>>)>>),
     qEmpty |-> Blockquote(<<>>),
     code |-> Code]

RemarkInit ==
    /\ content = <<>>
    /\ typed = <<>>
    /\ pc = "tree"
    /\ processedContent = <<>>
    /\ reprocessed = <<>>
    /\ filters = <<>>
    /\ keywords = <<>>
    /\ matched = FALSE
    /\ WebIdle

\* the parser adds one more child to the root
Parse(u) ==
    /\ pc = "tree"
    /\ Len(tree) < MaxTreeUnits
    /\ typed' = Append(typed, u)
    /\ tree' = Append(tree, MdTable[u])
    /\ UNCHANGED <<content, pc, processedContent, reprocessed, filters, keywords, matched,
                   resolved, remarked, docs, at, results, blockAction, newTree, sideVars>>

\* the transformer returned by remarkHiddenContent() runs on the tree
Transform ==
    /\ pc = "tree"
    /\ newTree' = remarkHiddenContent(tree)
    /\ pc' = "transformed"
    /\ UNCHANGED <<content, typed, processedContent, reprocessed, filters, keywords, matched,
                   resolved, remarked, docs, at, results, blockAction, tree, sideVars>>

RemarkNext ==
    \/ \E u \in DOMAIN MdTable : Parse(u)
    \/ Transform

RemarkSpec == RemarkInit /\ [][RemarkNext]_vars

----------------------------------------------------------------------------
(* The attribute run: a blob is typed pair by pair, then handed to the two   *)
(* extractAttributes and, in braces, to the three places of resolveNode that *)
(* build a hidden node                                                        *)

MaxPairs == 3

\* The pieces an author puts between two ";": well-formed pairs, the reserved
\* keys, a key typed twice, and the malformed pieces.
PairTable ==
    [ text    |-> <<"t", "e", "x", "t", "=", "t">>,
      textU   |-> <<"t", "e", "x", "t", "=", "u">>,
      ph      |-> kPlaceholder \o <<"=", "p">>,
      phEmpty |-> kPlaceholder \o <<"=">>,
      a       |-> <<"a", "=", "1">>,
      spaced  |-> <<" ", "b", " ", "=", " ", "2", " ">>,
      bare    |-> <<"c">>,
      eqs     |-> <<"d", "=", "1", "=", "2">>,
      noKey   |-> <<"=", "1">>,
      empty   |-> <<>> ]

\* Dialect A written in Dialect B: , for ; and : for =
InDialectB(blob) ==
    [i \in 1..Len(blob) |->
        IF blob[i] = ";" THEN "," ELSE IF blob[i] = "=" THEN ":" ELSE blob[i]]

\* the nodes of a value returned by resolveNode that are hidden nodes
HiddenOf(result) ==
    SelectSeq(result.nodes,
              LAMBDA n : n.type \in {"CUSTOM_HIDDEN_INLINE", "CUSTOM_HIDDEN_BLOCK"})

\* the nodes the renderer hands to resolveNode for the blob: the inline directive
\* :::hide{..} s:::, the tokens [hide-inline{..}] and [hide-block{..}], and the
\* three paragraphs of the block :::hide{..} / v / :::
SiteNodes(blob) ==
    << TextNode(OpenMark \o blob \o Space \o <<Secret>> \o CloseMark),
       TextNode(InlineOpen \o InDialectB(blob) \o RBracket
                \o BlockOpen \o InDialectB(blob) \o RBracket),
       Node("PARAGRAPH", OpenMark \o blob),
       Node("PARAGRAPH", <<"v">>),
       Node("PARAGRAPH", CloseMark) >>

AttrInit ==
    /\ content = <<>>
    /\ typed = <<>>
    /\ pc = "attrs"
    /\ processedContent = <<>>
    /\ reprocessed = <<>>
    /\ filters = <<>>
    /\ keywords = <<>>
    /\ matched = FALSE
    /\ WebIdle

\* one more piece, after a ; when it is not the first
TypePair(p) ==
    /\ pc = "attrs"
    /\ Len(typed) < MaxPairs
    /\ typed' = Append(typed, p)
    /\ content' = IF typed = <<>> THEN PairTable[p] ELSE content \o Semi \o PairTable[p]
    /\ UNCHANGED <<pc, processedContent, reprocessed, filters, keywords, matched, webVars>>

\* the blob, in braces or not, is extracted; in braces it is also put into the
\* directive, the tokens and the block that the renderer goes through next
Extract(braced) ==
    /\ pc = "attrs"
    /\ LET blob == IF braced THEN LBrace \o content \o RBrace ELSE content
       IN  extracted' =
               [blob |-> blob,
                resolve |-> extractAttributes(blob, Semi, Equals),
                remark |-> remarkExtractAttributes(blob, Semi, Equals),
                nodes |-> IF braced THEN SiteNodes(blob) ELSE <<>>,
                hidden |-> <<>>]
    /\ blockAction' = FreshBlockAction
    /\ pc' = "extracted"
    /\ UNCHANGED <<content, typed, processedContent, reprocessed, filters, keywords,
                   matched, resolved, remarked, docs, at, results, tree, newTree,
                   cache, accessOrder, strippedContent>>

\* the renderer hands the next node to resolveNode; the hidden nodes returned
\* are kept
ResolveSite ==
    /\ pc = "extracted"
    /\ extracted.nodes # <<>>
    /\ LET r == resolveNode(blockAction, Head(extracted.nodes))
       IN  /\ blockAction' = r.blockAction
           /\ extracted' = [extracted EXCEPT !.nodes = Tail(@),
                                             !.hidden = @ \o HiddenOf(r.result)]
    /\ UNCHANGED <<content, typed, pc, processedContent, reprocessed, filters,
                   keywords, matched, resolved, remarked, docs, at, results, tree,
                   newTree, cache, accessOrder, strippedContent>>

AttrNext ==
    \/ \E p \in DOMAIN PairTable : TypePair(p)
    \/ \E braced \in BOOLEAN : Extract(braced)
    \/ ResolveSite

AttrSpec == AttrInit /\ [][AttrNext]_vars

----------------------------------------------------------------------------
(* useMediaResolution: the media resolution cache *)

\* 100 in the program; the cache of the model is full with two entries
MAX_CACHE_SIZE == 2

\* calls of addToCache in one run
MaxAdds == 4

\* the cache keys: key || src of useMediaResolution, the empty string included
CacheKeys == {"", "a", "b", "c"}

\* Array.prototype.indexOf, counted from 1; 0 when the key is not in the list
indexOf(list, key) == Leftmost({i \in 1..Len(list) : list[i] = key})

\* list.splice(index, 1) when index > -1
removeAt(list, index) ==
    IF index = 0 THEN list
    ELSE SubSeq(list, 1, index - 1) \o SubSeq(list, index + 1, Len(list))

\* mediaResolutionCache.has(key)
has(map, key) == \E i \in 1..Len(map) : map[i] = key

\* mediaResolutionCache.set(key, value): a key already present keeps its place
set(map, key) == IF has(map, key) THEN map ELSE Append(map, key)

\* mediaResolutionCache.delete(key)
delete(map, key) == SelectSeq(map, LAMBDA k : k # key)

CacheInit ==
    /\ content = <<>>
    /\ typed = <<>>
    /\ pc = "cache"
    /\ processedContent = <<>>
    /\ reprocessed = <<>>
    /\ filters = <<>>
    /\ keywords = <<>>
    /\ matched = FALSE
    /\ WebIdle

\* typed counts the calls of addToCache
addToCache(key) ==
    /\ pc = "cache"
    /\ Len(typed) < MaxAdds
    /\ typed' = Append(typed, key)
    /\ LET forgotten == IF has(cache, key)
                        THEN removeAt(accessOrder, indexOf(accessOrder, key))
                        ELSE accessOrder
           stored == set(cache, key)
           pushed == Append(forgotten, key)
           oldestKey == Head(pushed)
       IN  IF Len(stored) > MAX_CACHE_SIZE
           THEN /\ accessOrder' = Tail(pushed)
                /\ cache' = IF oldestKey # "" THEN delete(stored, oldestKey) ELSE stored
           ELSE /\ accessOrder' = pushed
                /\ cache' = stored
    /\ UNCHANGED <<content, pc, processedContent, reprocessed, filters, keywords, matched,
                   resolved, remarked, docs, at, results, blockAction, tree, newTree,
                   extracted, strippedContent>>

\* every value stored is an object, so a key present gives a truthy value
getFromCache(key) ==
    /\ pc = "cache"
    /\ accessOrder' =
           IF has(cache, key) /\ indexOf(accessOrder, key) # 0
           THEN Append(removeAt(accessOrder, indexOf(accessOrder, key)), key)
           ELSE accessOrder
    /\ UNCHANGED <<goVars, resolved, remarked, docs, at, results, blockAction, tree,
                   newTree, extracted, cache, strippedContent>>

\* clearMediaResolutionCache(key); the empty string is falsy and clears the cache
clearMediaResolutionCache(key) ==
    /\ pc = "cache"
    /\ cache' = IF key # "" THEN delete(cache, key) ELSE <<>>
    /\ UNCHANGED <<goVars, resolved, remarked, docs, at, results, blockAction, tree,
                   newTree, extracted, accessOrder, strippedContent>>

\* clearMediaResolutionCache()
clearMediaResolutionCacheAll ==
    /\ pc = "cache"
    /\ cache' = <<>>
    /\ UNCHANGED <<goVars, resolved, remarked, docs, at, results, blockAction, tree,
                   newTree, extracted, accessOrder, strippedContent>>

CacheNext ==
    \/ \E key \in CacheKeys : addToCache(key)
    \/ \E key \in CacheKeys : getFromCache(key)
    \/ \E key \in CacheKeys : clearMediaResolutionCache(key)
    \/ clearMediaResolutionCacheAll

CacheSpec == CacheInit /\ [][CacheNext]_vars

----------------------------------------------------------------------------
(* The stripping run: removeHiddenPlaceholders applied to a stored content *)

MaxStripParts == 3

\* Visible text, the two tokens, and the two halves of a token typed as text.
StripTable ==
    [ v         |-> <<"v">>,
      tokInline |-> InlineOpen \o RBracket,
      tokBlock  |-> BlockOpen \o AttrAB \o RBracket,
      opening   |-> <<"[", "h", "i", "d", "e", "-">>,
      inlineTail |-> <<"i", "n", "l", "i", "n", "e", "]">>,
      blockTail  |-> <<"b", "l", "o", "c", "k", "]">> ]

StripInit ==
    /\ content = <<>>
    /\ typed = <<>>
    /\ pc = "stored"
    /\ processedContent = <<>>
    /\ reprocessed = <<>>
    /\ filters = <<>>
    /\ keywords = <<>>
    /\ matched = FALSE
    /\ WebIdle

StorePart(p) ==
    /\ pc = "stored"
    /\ Len(typed) < MaxStripParts
    /\ typed' = Append(typed, p)
    /\ content' = content \o StripTable[p]
    /\ UNCHANGED <<pc, processedContent, reprocessed, filters, keywords, matched, webVars>>

Strip ==
    /\ pc = "stored"
    /\ strippedContent' = removeHiddenPlaceholders(content)
    /\ pc' = "stripped"
    /\ UNCHANGED <<content, typed, processedContent, reprocessed, filters, keywords,
                   matched, resolved, remarked, docs, at, results, blockAction, tree,
                   newTree, extracted, cache, accessOrder>>

StripNext ==
    \/ \E p \in DOMAIN StripTable : StorePart(p)
    \/ Strip

StripSpec == StripInit /\ [][StripNext]_vars

----------------------------------------------------------------------------
(* Vocabulary of the properties *)

Encoded == pc \in {"encoded", "reencoded"}

\* the parts typed, in order
Parts == [i \in 1..Len(typed) |-> PartTable[typed[i]]]

IsDirective(part) == part.kind \in {"inline", "block"}

\* a directive with a payload between its markers
HasPayload(part) == IsDirective(part) /\ part.secret # <<>>

\* plain text: no marker of the directive syntax, no placeholder token
IsPlain(part) == part.text \in {<<"v">>, Newline, NoteDirective}

\* a memo made of plain text and of directives that have a payload
PlainAndDirectives == \A i \in 1..Len(typed) : IsPlain(Parts[i]) \/ HasPayload(Parts[i])

\* the same, a placeholder token typed as such allowed too
NoStrayMarker ==
    \A i \in 1..Len(typed) : Parts[i].kind = "text" \/ HasPayload(Parts[i])

NoSpaceAround(str) ==
    str = <<>> \/ (str[1] \notin Whitespace /\ str[Len(str)] \notin Whitespace)

\* every key and value of the directive is written without surrounding whitespace
WrittenTrimmed(part) ==
    \A i \in 1..Len(part.attrs) :
        NoSpaceAround(part.attrs[i][1]) /\ NoSpaceAround(part.attrs[i][2])

\* the placeholder tokens of a text, left to right: the head and the attribute
\* string between the braces of each
RECURSIVE Tokens(_, _)
Tokens(s, i) ==
    LET j == Leftmost({k \in i..Len(s) :
                 inlinePlaceholderRe(s, k) # 0 \/ blockPlaceholderRe(s, k) # 0})
        ei == inlinePlaceholderRe(s, j)
        open == IF ei # 0 THEN InlineOpen ELSE BlockOpen
        e == IF ei # 0 THEN ei ELSE blockPlaceholderRe(s, j)
    IN  IF j = 0 THEN <<>>
        ELSE <<[open |-> open, attrs |-> SubSeq(s, j + Len(open) + 1, e - 2)]>>
                 \o Tokens(s, e + 1)

\* a text with every placeholder token replaced by the mark #
RECURSIVE Skeleton(_, _)
Skeleton(s, i) ==
    LET j == Leftmost({k \in i..Len(s) :
                 inlinePlaceholderRe(s, k) # 0 \/ blockPlaceholderRe(s, k) # 0})
        ei == inlinePlaceholderRe(s, j)
        e == IF ei # 0 THEN ei ELSE blockPlaceholderRe(s, j)
    IN  IF j = 0 THEN SubSeq(s, i, Len(s))
        ELSE SubSeq(s, i, j - 1) \o <<"#">> \o Skeleton(s, e + 1)

\* key:value pairs joined by commas
DialectB(pairs) ==
    Join([i \in 1..Len(pairs) |-> pairs[i][1] \o Colon \o pairs[i][2]], Comma)

\* the placeholder token the documentation gives for a directive
TokenOf(part) ==
    (IF part.kind = "block" THEN BlockOpen ELSE InlineOpen)
    \o (IF part.attrs = <<>> THEN <<>> ELSE LBrace \o DialectB(part.attrs) \o RBrace)
    \o RBracket

\* the memo with every directive replaced by the token the documentation gives
Documented == Concat([i \in 1..Len(typed) |->
                 IF IsDirective(Parts[i]) THEN TokenOf(Parts[i]) ELSE Parts[i].text])

\* the keys of an attribute string key:value,key:value
KeysOf(attrs) ==
    IF attrs = <<>> THEN <<>>
    ELSE LET pairs == Split(attrs, Comma)
         IN  [i \in 1..Len(pairs) |-> Split(pairs[i], Colon)[1]]

Reserved == {kText, kPlaceholder}

\* the directives typed, in order
Directives == SelectSeq(Parts, IsDirective)

\* a block directive that is alone on its lines
OnOwnLines(i) ==
    /\ i = 1 \/ typed[i - 1] = "nl"
    /\ i = Len(typed) \/ typed[i + 1] = "nl"

----------------------------------------------------------------------------
(* Properties of the encoder, checked under Spec *)

\* C2 (as claimed): whenever a memo of text and complete hide directives is
\* encoded, no payload character appears in the output.
C2_PayloadNeverInOutput ==
    (Encoded /\ \A i \in 1..Len(typed) : Parts[i].kind # "stray")
        => ~Contains(processedContent, <<Secret>>)

\* C3 (as claimed): encoding the encoder's output again gives the same text.
C3_Idempotent == pc = "reencoded" => reprocessed = processedContent

C6_DialectB ==
    (Encoded /\ PlainAndDirectives /\ \A i \in 1..Len(typed) : WrittenTrimmed(Parts[i]))
        => /\ processedContent = Documented
           /\ ~Contains(processedContent, Semi)
           /\ ~Contains(processedContent, Equals)

C6_Witness ==
    /\ Encoded /\ typed = <<"inlineAB", "nl", "blockAB">>
    /\ Tokens(processedContent, 1) =
         <<[open |-> InlineOpen, attrs |-> <<"a", ":", "1", ",", "b", ":", "2">>],
           [open |-> BlockOpen, attrs |-> <<"a", ":", "1", ",", "b", ":", "2">>]>>

\* C7 (as claimed): every key and value inside an emitted token is trimmed.
C7_Trimmed ==
    (Encoded /\ PlainAndDirectives) =>
        \A t \in 1..Len(Tokens(processedContent, 1)) :
            LET pairs == Split(Tokens(processedContent, 1)[t].attrs, Comma)
            IN  \A i \in 1..Len(pairs) :
                    \A j \in 1..Len(Split(pairs[i], Colon)) :
                        NoSpaceAround(Split(pairs[i], Colon)[j])

\* C8 (as claimed): no emitted token lists the key text or placeholder, and a
\* directive whose only attributes are these encodes to [hide-inline].
C8_ReservedRemoved ==
    (Encoded /\ PlainAndDirectives) =>
        /\ \A t \in 1..Len(Tokens(processedContent, 1)) :
               \A k \in 1..Len(KeysOf(Tokens(processedContent, 1)[t].attrs)) :
                   KeysOf(Tokens(processedContent, 1)[t].attrs)[k] \notin Reserved
        /\ typed = <<"inlineRK">> => processedContent = InlineOpen \o RBracket

\* C8 (amended): the reserved keys are emitted like every other attribute: the
\* token of each directive lists the reserved keys the directive was written
\* with, in order, and it is the bare token exactly when the directive has no
\* attribute.
C8_ReservedKept ==
    (Encoded /\ PlainAndDirectives) =>
        LET toks == Tokens(processedContent, 1)
        IN  /\ Len(toks) = Len(Directives)
            /\ \A j \in 1..Len(toks) :
                   /\ SelectSeq(KeysOf(toks[j].attrs), LAMBDA k : k \in Reserved)
                        = SelectSeq([i \in 1..Len(Directives[j].attrs) |->
                                        Directives[j].attrs[i][1]],
                                    LAMBDA k : k \in Reserved)
                   /\ toks[j].attrs = <<>> <=> Directives[j].attrs = <<>>

C8_Witness ==
    /\ Encoded /\ typed = <<"inlineRK">>
    /\ KeysOf(Tokens(processedContent, 1)[1].attrs) = <<kText, kPlaceholder>>

\* C9 (as claimed): in a memo of block directives, each alone on its lines, and
\* text between them, every block, whatever the number of its interior lines, is
\* replaced by exactly its [hide-block...] token and the text between is kept.
C9_BlockCollapses ==
    (/\ Encoded
     /\ \A i \in 1..Len(typed) :
            \/ typed[i] \in {"v", "nl"}
            \/ Parts[i].kind = "block" /\ OnOwnLines(i))
        => processedContent = Documented

\* C10 (as claimed): when no block directive of the memo is alone on its lines,
\* the output has no [hide-block...] token.
C10_WholeLinesOnly ==
    (/\ Encoded /\ PlainAndDirectives
     /\ \A i \in 1..Len(typed) : Parts[i].kind = "block" => ~OnOwnLines(i))
        => ~Contains(processedContent, BlockOpen)

\* a line that is :::hide or :::hide{attrs} and nothing else
IsOpenerLine(l) ==
    /\ HasAt(l, 1, OpenMark)
    /\ \/ Len(l) = Len(OpenMark)
       \/ HasAt(l, 8, LBrace) /\ IndexFrom(l, RBrace, 9) = Len(l)

\* index in s of the first character of its k-th line
LineStart(s, k) ==
    LET ls == Split(s, Newline)
        RECURSIVE Before(_)
        Before(j) == IF j = 0 THEN 0 ELSE Before(j - 1) + Len(ls[j]) + 1
    IN  Before(k - 1) + 1

\* the opener lines that no later line consisting of ::: closes
UnterminatedOpeners(s) ==
    LET ls == Split(s, Newline)
    IN  {k \in 1..Len(ls) :
            IsOpenerLine(ls[k]) /\ \A j \in (k + 1)..Len(ls) : ls[j] # CloseMark}

IsSuffix(t, s) ==
    Len(t) <= Len(s) /\ SubSeq(s, Len(s) - Len(t) + 1, Len(s)) = t

\* C11 (as claimed): when a memo has an opener line and no later line that is
\* exactly :::, the output ends with the opener line and everything after it,
\* unchanged.
C11_EncoderFailOpen ==
    Encoded =>
        \A k \in UnterminatedOpeners(content) :
            IsSuffix(SubSeq(content, LineStart(content, k), Len(content)),
                     processedContent)

----------------------------------------------------------------------------
(* Properties of the search filter, checked under SearchSpec *)

\* the indices at which a placeholder token starts, with the index at which it ends
TokenSpans(s) ==
    {<<a, inlinePlaceholderRe(s, a)>> : a \in {i \in 1..Len(s) : inlinePlaceholderRe(s, i) # 0}}
    \cup {<<a, blockPlaceholderRe(s, a)>> : a \in {i \in 1..Len(s) : blockPlaceholderRe(s, i) # 0}}

\* k occurs in s, and each of its occurrences lies inside a placeholder token
OnlyInsideTokens(s, k) ==
    /\ Contains(s, k)
    /\ \A i \in 1..Len(s) :
           HasAt(s, i, k) =>
               \E span \in TokenSpans(s) : span[1] <= i /\ i + Len(k) - 1 <= span[2]

\* C1 (as claimed): a search for hide-inline or hide-block fails when the keyword
\* occurs in the content only inside placeholder tokens.
C1_PlaceholderOpacity ==
    pc = "searched" =>
        \A k \in {HideInlineWord, HideBlockWord} :
            (filters = <<Clause(k)>> /\ OnlyInsideTokens(content, k)) => matched = FALSE

\* C4: the result is true exactly when every keyword of every well-formed
\* content.contains clause of every filter is a substring of the content with
\* its placeholder tokens removed; with no keyword it is true.
C4_AllKeywords ==
    pc = "searched" =>
        /\ matched = \A i \in 1..Len(keywords) :
                         Contains(removeHiddenPlaceholders(content), keywords[i])
        /\ keywords = <<>> => matched

C4_Witness ==
    /\ pc = "searched" /\ matched
    /\ Len(filters) = 2 /\ Len(keywords) = 3
    /\ Tokens(content, 1) # <<>>

----------------------------------------------------------------------------
(* Properties of resolveNode, checked under ResolveSpec *)

\* a paragraph that is :::hide or :::hide{attrs} and nothing else
IsHideOpener(node) == node.type = "PARAGRAPH" /\ IsOpenerLine(node.content)

\* a paragraph that is ::: and nothing else
IsCloser(node) == node.type = "PARAGRAPH" /\ node.content = CloseMark

\* the scanner and the values returned after resolveNode has been applied, in
\* order, to the units of doc, starting with blockAction = ba
RECURSIVE ResolveAll(_, _)
ResolveAll(ba, doc) ==
    IF doc = <<>> THEN [blockAction |-> ba, results |-> <<>>]
    ELSE LET r == resolveNode(ba, Head(doc))
             rest == ResolveAll(r.blockAction, Tail(doc))
         IN  [blockAction |-> rest.blockAction, results |-> <<r.result>> \o rest.results]

\* what a document gets when it is resolved alone by a fresh scanner
Alone(doc) == ResolveAll(FreshBlockAction, doc).results

\* only the first document is rendered
OnlyA == docs["B"] = <<>>

\* C12 (as claimed): in a document with an opener paragraph and no later closer
\* paragraph, no unit after the opener is suppressed with null.
C12_ResolverFailOpen ==
    (pc = "render" /\ OnlyA) =>
        \A k \in 1..Len(docs["A"]) :
            (/\ IsHideOpener(docs["A"][k])
             /\ \A j \in (k + 1)..Len(docs["A"]) : ~IsCloser(docs["A"][j]))
                => \A j \in (k + 1)..at["A"] : results["A"][j] # Null

\* C14 (as claimed): for an opener paragraph, N body units and a closer paragraph,
\* the last call returns one hidden block whose children are the N body units in
\* order, and every other call returns null.
C14_BlockContainment ==
    LET A == docs["A"]
        n == Len(A)
    IN  (/\ pc = "render" /\ OnlyA /\ n >= 2 /\ at["A"] = n
         /\ IsHideOpener(A[1]) /\ IsCloser(A[n])
         /\ \A j \in 2..(n - 1) : ~IsCloser(A[j]))
            => /\ \A j \in 1..(n - 1) : results["A"][j] = Null
               /\ results["A"][n].kind = "node"
               /\ results["A"][n].nodes[1].type = "CUSTOM_HIDDEN_BLOCK"
               /\ results["A"][n].nodes[1].children = SubSeq(A, 2, n - 1)

\* C15 (as claimed): once every unit of a document has been resolved, and before
\* a unit of the next document is, the scanner is not collecting and holds no node.
C15_NoLeakBetweenDocuments ==
    (pc = "render" /\ at["A"] = Len(docs["A"]) /\ at["B"] = 0)
        => ~blockAction.flag /\ blockAction.nodes = <<>>

\* C16 (as claimed): whatever the order of the calls for the units of two
\* documents, each document gets the values it gets when resolved alone.
C16_NoInterleaving ==
    (pc = "render" /\ \A d \in DocNames : at[d] = Len(docs[d]))
        => \A d \in DocNames : results[d] = Alone(docs[d])

\* C18 (as claimed): a unit handed over while the scanner is collecting, other
\* than the closer, gets null, whatever its type.
C18_CollectingSuppresses ==
    (pc = "render" /\ OnlyA) =>
        \A j \in 1..at["A"] :
            (/\ ResolveAll(FreshBlockAction, SubSeq(docs["A"], 1, j - 1)).blockAction.flag
             /\ ~IsCloser(docs["A"][j]))
                => results["A"][j] = Null

\* C19 (as claimed): in a document without a :::hide opener, an opener of another
\* action has no effect: every paragraph and line break is returned as it is and
\* the scanner never collects.
C19_OtherActionInert ==
    (pc = "render" /\ OnlyA /\ \A j \in 1..Len(docs["A"]) : ~IsHideOpener(docs["A"][j]))
        => /\ ~blockAction.flag
           /\ \A j \in 1..at["A"] :
                  docs["A"][j].type # "TEXT" => results["A"][j] = One(docs["A"][j])

\* a text node in which reg.inlineOringal or reg.raw finds a match
HasDirectiveOrToken(node) ==
    /\ node.type = "TEXT"
    /\ node.content # Undefined
    /\ \E k \in 1..Len(node.content) :
           inlineOringal(node.content, k).end # 0 \/ raw(node.content, k).end # 0

\* a paragraph that is :::action or :::action{attrs} and nothing else
IsOpener(node) ==
    /\ node.type = "PARAGRAPH"
    /\ node.content # Undefined
    /\ blockOringalBegin(node.content).ok

\* the unit the next call of resolveNode for document d is given
NextUnit(d) == docs[d][at[d] + 1]

\* C21: a call made while the scanner is not collecting, for a node that is
\* neither a text node holding a directive or a placeholder token nor an opener
\* paragraph, returns that node as it is and leaves blockAction as it was; a
\* closer paragraph met with no block open is such a node.
C21_IdentityPassThrough ==
    [][\A d \in DocNames :
          (/\ Resolve(d)
           /\ ~blockAction.flag
           /\ ~HasDirectiveOrToken(NextUnit(d))
           /\ ~IsOpener(NextUnit(d)))
              => /\ results'[d][at'[d]] = One(NextUnit(d))
                 /\ blockAction' = blockAction]_vars

\* a stray closer, a plain text node and a line break went through a scanner
\* that was not collecting
C21_Witness ==
    /\ pc = "render" /\ OnlyA /\ at["A"] = 3
    /\ IsCloser(docs["A"][1])
    /\ docs["A"][2].type = "TEXT"
    /\ docs["A"][3].type = "LINE_BREAK"
    /\ results["A"] = <<One(docs["A"][1]), One(docs["A"][2]), One(docs["A"][3])>>
    /\ blockAction = FreshBlockAction

\* the first closer paragraph of doc after index i, 0 when there is none
CloserAfter(doc, i) == Leftmost({k \in (i + 1)..Len(doc) : IsCloser(doc[k])})

\* C26: in a document that starts with a :::hide opener, a second :::hide opener
\* met before the first closer gets null and ends up among the children of the
\* block that the first closer emits; a closer that follows, with no opener in
\* between, is returned as it is.
C26_NoNesting ==
    LET A == docs["A"]
        k == CloserAfter(A, 1)
    IN  (pc = "render" /\ OnlyA /\ A # <<>> /\ IsHideOpener(A[1])) =>
            \A j \in 2..at["A"] :
                (IsHideOpener(A[j]) /\ (k = 0 \/ j < k)) =>
                    /\ results["A"][j] = Null
                    /\ (k # 0 /\ at["A"] >= k) =>
                           /\ results["A"][k].kind = "node"
                           /\ results["A"][k].nodes[1].type = "CUSTOM_HIDDEN_BLOCK"
                           /\ \E n \in 1..Len(results["A"][k].nodes[1].children) :
                                  results["A"][k].nodes[1].children[n] = A[j]
                           /\ at["A"] = k => ~blockAction.flag
                           /\ \A l \in (k + 1)..at["A"] :
                                  (/\ IsCloser(A[l])
                                   /\ \A m \in (k + 1)..(l - 1) : ~IsOpener(A[m]))
                                      => results["A"][l] = One(A[l])

\* opener, opener, closer, closer: the inner opener is a child of the block the
\* first closer emitted and the second closer came back as it is
C26_Witness ==
    /\ pc = "render" /\ OnlyA /\ at["A"] = 4
    /\ IsHideOpener(docs["A"][1]) /\ IsHideOpener(docs["A"][2])
    /\ IsCloser(docs["A"][3]) /\ IsCloser(docs["A"][4])
    /\ results["A"][2] = Null
    /\ results["A"][3].nodes[1].children = <<docs["A"][2]>>
    /\ results["A"][4] = One(docs["A"][4])

\* C29: whenever blockAction.nodes holds a node, blockAction.flag is set; a
\* scanner that is not collecting has an empty accumulator, so the test of
\* blockAction.nodes.size never keeps an opener from starting a block.
C29_AccumulatorOnlyWhileCollecting ==
    pc = "render" => (blockAction.nodes # <<>> => blockAction.flag)

\* a block was filled and closed: the accumulator went into the block and the
\* scanner is back with nothing in it
C29_Witness ==
    /\ pc = "render" /\ OnlyA /\ at["A"] = 3
    /\ IsHideOpener(docs["A"][1]) /\ IsCloser(docs["A"][3])
    /\ results["A"][3].kind = "node"
    /\ results["A"][3].nodes[1].children = <<docs["A"][2]>>
    /\ ~blockAction.flag /\ blockAction.nodes = <<>>

----------------------------------------------------------------------------
(* Properties of the text stages, checked under TextSpec *)

Viewed == pc = "viewed"

\* the text is made of the parts named
MadeOf(names) == \A i \in 1..Len(typed) : typed[i] \in names

\* the concatenated text of a sequence of text nodes
TextOf(nodes) ==
    Concat([i \in 1..Len(nodes) |->
               IF nodes[i].content = Undefined THEN <<>> ELSE nodes[i].content])

\* how many of the parts typed have the name
Count(name) == Cardinality({i \in 1..Len(typed) : typed[i] = name})

\* how many of the nodes are hidden inline nodes
HiddenInlines(nodes) ==
    Cardinality({i \in 1..Len(nodes) :
                    nodes[i].type \in {"CUSTOM_HIDDEN_INLINE", "hiddenInline"}})

\* C13 (as claimed): a text whose only directives and tokens have the action note
\* is left unchanged by the encoder, and resolveNode and remarkHiddenContent turn
\* it into text nodes whose concatenated content is the text.
C13_OtherActionsVerbatim ==
    (Viewed /\ MadeOf({"v", "nl", "note", "noteTok"})) =>
        /\ processedContent = content
        /\ \A i \in 1..Len(resolved.nodes) : resolved.nodes[i].type = "TEXT"
        /\ TextOf(resolved.nodes) = content
        /\ \A i \in 1..Len(remarked) : remarked[i].type = "text"
        /\ TextOf(remarked) = content

\* C17 (as claimed): every inline directive whose payload holds a line break
\* becomes one token in the encoder's output and one hidden inline node in the
\* output of resolveNode and of remarkHiddenContent.
C17_SpansNewlines ==
    (Viewed /\ MadeOf({"v", "inlineNL"})) =>
        /\ Len(Tokens(processedContent, 1)) = Count("inlineNL")
        /\ HiddenInlines(resolved.nodes) = Count("inlineNL")
        /\ HiddenInlines(remarked) = Count("inlineNL")

\* the text typed after the first part
AfterFirst == SubSeq(content, Len(TextTable[typed[1]]) + 1, Len(content))

\* C17 (amended): the payload of an inline directive lies on one line.  A
\* directive whose payload holds a line break between two of its characters is not
\* recognized: the encoder, resolveNode and remarkHiddenContent leave the text as
\* it is.  A directive with a one-line payload ends at the first closing :::, and
\* is replaced by one token, respectively one hidden inline node.
C17_SingleLineOnly ==
    Viewed =>
        /\ MadeOf({"v", "inlineNL"}) =>
              /\ processedContent = content
              /\ resolved = One(TextNode(content))
              /\ remarked = <<MdText(content)>>
        /\ (typed # <<>> /\ typed[1] = "inline"
                /\ \A i \in 2..Len(typed) : typed[i] \in {"v", "close", "inlineNL"}) =>
              LET rest == AfterFirst
              IN  /\ processedContent = InlineOpen \o RBracket \o rest
                  /\ resolved =
                        Many(<<HiddenInline(<<>>, <<Secret>>, Undefined)>>
                             \o (IF rest = <<>> THEN <<>> ELSE <<TextNode(rest)>>))
                  /\ remarked =
                        <<MdHiddenInline(<<>>, <<Secret>>, <<>>)>>
                        \o (IF rest = <<>> THEN <<>> ELSE <<MdText(rest)>>)

C17_Witness ==
    /\ Viewed /\ typed = <<"inline", "inlineNL", "close">>
    /\ processedContent = InlineOpen \o RBracket \o InlineNL \o CloseMark
    /\ HiddenInlines(resolved.nodes) = 1
    /\ HiddenInlines(remarked) = 1

\* adjacent text nodes joined into one
RECURSIVE Merged(_)
Merged(nodes) ==
    IF Len(nodes) < 2 THEN nodes
    ELSE IF nodes[1].type \in {"TEXT", "text"} /\ nodes[2].type = nodes[1].type
    THEN Merged(<<[nodes[1] EXCEPT !.content = @ \o nodes[2].content]>>
                \o SubSeq(nodes, 3, Len(nodes)))
    ELSE <<nodes[1]>> \o Merged(Tail(nodes))

\* text nodes without content left out
NonEmpty(nodes) ==
    SelectSeq(nodes, LAMBDA n : ~(n.type \in {"TEXT", "text"} /\ n.content = <<>>))

A1 == <<<<"a">>, <<"1">>>>

\* the hidden node the claims expect for a part, as resolveNode (md = FALSE) or
\* remarkHiddenContent (md = TRUE) builds nodes; a text node for any other part
Expected(part, md) ==
    IF part = "tok"
    THEN IF md THEN MdHiddenInline(<<>>, <<>>, <<>>) ELSE HiddenInline(<<>>, <<>>, Undefined)
    ELSE IF part = "tokA"
    THEN IF md THEN MdHiddenBlock(<<A1>>, <<>>, <<"t">>) ELSE HiddenBlock(<<A1>>, <<>>, <<"t">>)
    ELSE IF part = "inline"
    THEN IF md THEN MdHiddenInline(<<>>, <<Secret>>, <<>>)
         ELSE HiddenInline(<<>>, <<Secret>>, Undefined)
    ELSE IF part = "inlineA"
    THEN IF md THEN MdHiddenInline(<<A1>>, <<Secret>>, <<"t">>)
         ELSE HiddenInline(<<A1>>, <<Secret>>, <<"t">>)
    ELSE IF md THEN MdText(TextTable[part]) ELSE TextNode(TextTable[part])

\* the parts typed, those named in hidden replaced by their hidden node and the
\* text of the others left in place
SplitAround(hidden, md) ==
    Merged([i \in 1..Len(typed) |->
               IF typed[i] \in hidden THEN Expected(typed[i], md)
               ELSE IF md THEN MdText(TextTable[typed[i]]) ELSE TextNode(TextTable[typed[i]])])

TokenParts == {"tok", "tokA"}
DirectiveParts == {"inline", "inlineA"}

\* C22 (as claimed): a text with placeholder tokens and no raw directive comes
\* back, from resolveNode and from remarkHiddenContent, as its plain fragments in
\* text nodes and one hidden node for each hide token, in the order of the text:
\* a hidden inline node with the payload "" for [hide-inline...], a hidden block
\* node without children for [hide-block...], with the label and the attributes.
C22_TokensResolved ==
    (/\ Viewed
     /\ MadeOf({"v", "nl", "close", "noteTok", "inlineNL"} \cup TokenParts)
     /\ \E i \in 1..Len(typed) : typed[i] \in TokenParts) =>
        /\ resolved.kind = "array"
        /\ resolved.nodes = SplitAround(TokenParts, FALSE)
        /\ Merged(remarked) = SplitAround(TokenParts, TRUE)

\* C23 (as claimed): a text with raw inline hide directives comes back, from
\* resolveNode and from remarkHiddenContent, as its plain fragments in text nodes
\* with their content unchanged and one hidden inline node for each directive, with
\* its payload and attributes, in the order of the text; no text is lost.
C23_DirectivesSplit ==
    (/\ Viewed
     /\ \E i \in 1..Len(typed) : typed[i] \in DirectiveParts) =>
        /\ resolved.kind = "array"
        /\ Merged(resolved.nodes) = SplitAround(DirectiveParts, FALSE)
        /\ HiddenInlines(resolved.nodes)
               = Cardinality({i \in 1..Len(typed) : typed[i] \in DirectiveParts})
        /\ Merged(remarked) = SplitAround(DirectiveParts, TRUE)

----------------------------------------------------------------------------
(* Properties of remarkHiddenContent, checked under RemarkSpec *)

Transformed == pc = "transformed"

\* a paragraph that is nothing but :::hide or :::hide{attrs}
IsHideParagraph(unit) ==
    /\ unit.type = "paragraph"
    /\ Len(unit.children) = 1
    /\ OpenerChildren(unit) = {1}

\* the paragraph that holds the last piece of text of a unit
LastParagraph(unit) ==
    IF unit.type = "paragraph" THEN <<unit>>
    ELSE IF unit.type = "blockquote" /\ unit.children # <<>>
              /\ unit.children[Len(unit.children)].type = "paragraph"
    THEN <<unit.children[Len(unit.children)]>>
    ELSE <<>>

\* the last piece of text of the unit, trimmed, is exactly :::
EndsWithCloser(unit) ==
    /\ LastParagraph(unit) # <<>>
    /\ LET p == LastParagraph(unit)[1]
       IN  /\ p.children # <<>>
           /\ p.children[Len(p.children)].type = "text"
           /\ trim(p.children[Len(p.children)].content) = CloseMark

\* what is left of a closing unit once the closer text is stripped: nothing when
\* the unit was only the closer
Residual(unit) ==
    LET p == LastParagraph(unit)[1]
        rest == SubSeq(p.children, 1, Len(p.children) - 1)
        para == IF rest = <<>> THEN <<>> ELSE <<[p EXCEPT !.children = rest]>>
        kept == SubSeq(unit.children, 1, Len(unit.children) - 1) \o para
    IN  IF unit.type = "paragraph" THEN para
        ELSE IF kept = <<>> THEN <<>>
        ELSE <<[unit EXCEPT !.children = kept]>>

FirstCloser(units) == Leftmost({j \in 2..Len(units) : EndsWithCloser(units[j])})

\* C20: a block opened by a :::hide paragraph at the head of the tree is closed
\* by the first following sibling whose last piece of text, trimmed, is :::; the
\* run from the opener to that sibling is replaced by one hidden block whose
\* children are the units in between followed by what is left of the closing
\* unit once the closer is stripped, a unit that was only the closer being dropped
C20_ClosedByFirstCloser ==
    (Transformed /\ tree # <<>> /\ IsHideParagraph(tree[1]) /\ FirstCloser(tree) # 0) =>
        LET j == FirstCloser(tree)
        IN  /\ Len(newTree) = 2 + Len(tree) - j
            /\ newTree[1].type = "hiddenBlock"
            /\ newTree[1].children
                   = TextPass(SubSeq(tree, 2, j - 1)) \o Residual(tree[j])

----------------------------------------------------------------------------
(* Properties of the attributes, checked under AttrSpec *)

Extracted == pc = "extracted"

\* the value of the key, <<>> when the key is absent or has no value
ValueOf(attrs, key) ==
    IF Get(attrs, key) = Undefined THEN <<>> ELSE Get(attrs, key)

\* C24: every hidden node resolveNode builds, from a directive, from a token or
\* for a block, has for label the placeholder attribute when there is one and it
\* is not empty and the text attribute otherwise, and has neither text nor
\* placeholder among its other attributes.
C24_LabelFromReservedKeys ==
    Extracted =>
        \A n \in 1..Len(extracted.hidden) :
            LET h == extracted.hidden[n]
                attrs == extracted.resolve
            IN  /\ h.placeholder =
                       (IF ValueOf(attrs, kPlaceholder) # <<>>
                        THEN Get(attrs, kPlaceholder) ELSE Get(attrs, kText))
                /\ \A i \in 1..Len(h.attrs) : h.attrs[i][1] \notin {kText, kPlaceholder}

\* an empty placeholder and a text: the four hidden nodes are labelled with the
\* text and carry the attribute a alone
C24_Witness ==
    /\ Extracted
    /\ typed = <<"phEmpty", "text", "a">>
    /\ Len(extracted.hidden) = 4
    /\ \A n \in 1..4 : /\ extracted.hidden[n].placeholder = <<"t">>
                       /\ extracted.hidden[n].attrs = <<A1>>

\* a piece split at the first = into its trimmed parts
FirstSplit(piece) ==
    LET k == IndexFrom(piece, Equals, 1)
    IN  IF k = 0 THEN <<trim(piece)>>
        ELSE <<trim(SubSeq(piece, 1, k - 1)), trim(SubSeq(piece, k + 1, Len(piece)))>>

\* the pieces of the blob that give exactly two non-empty trimmed parts
GoodPairs(blob) ==
    LET pieces == Split(StripBraces(trim(blob)), Semi)
    IN  SelectSeq([i \in 1..Len(pieces) |-> FirstSplit(pieces[i])],
                  LAMBDA kv : Len(kv) = 2 /\ kv[1] # <<>> /\ kv[2] # <<>>)

\* the mapping they give, the last pair of a key winning
Mapping(pairs) ==
    {pairs[i] : i \in {i \in 1..Len(pairs) :
                          \A j \in (i + 1)..Len(pairs) : pairs[j][1] # pairs[i][1]}}

AsSet(attrs) == {attrs[i] : i \in 1..Len(attrs)}

\* C25 (as claimed): both extractAttributes return the mapping of the pieces that
\* split, at the first =, into exactly two non-empty trimmed parts, every other
\* piece being dropped: no empty key, no empty or missing value, the empty
\* mapping for an empty blob and for {}, and a value that holds a = kept whole.
C25_MalformedPiecesDropped ==
    Extracted =>
        /\ AsSet(extracted.resolve) = Mapping(GoodPairs(extracted.blob))
        /\ AsSet(extracted.remark) = Mapping(GoodPairs(extracted.blob))

----------------------------------------------------------------------------
(* Properties of the media resolution cache, checked under CacheSpec *)

\* C30 (as claimed): whatever calls were made, the cache holds at most
\* MAX_CACHE_SIZE entries and the access-order list names exactly the keys that
\* are in the cache.
C30_CacheBounded ==
    pc = "cache" =>
        /\ Len(cache) <= MAX_CACHE_SIZE
        /\ {accessOrder[i] : i \in 1..Len(accessOrder)} = {cache[i] : i \in 1..Len(cache)}

----------------------------------------------------------------------------
(* Properties of the search over joined text, checked under SearchSpec *)

\* k occurs in s at a place that no placeholder token overlaps
OutsideTokens(s, k) ==
    \E i \in 1..Len(s) :
        /\ HasAt(s, i, k)
        /\ \A span \in TokenSpans(s) : i + Len(k) - 1 < span[1] \/ span[2] < i

\* C28 (as claimed): when the search succeeds, every keyword occurs in the
\* content as a run of characters that lies wholly outside the placeholder
\* tokens; the text on the two sides of a token is never joined into a match.
C28_NoMatchAcrossToken ==
    (pc = "searched" /\ matched) =>
        \A i \in 1..Len(keywords) : OutsideTokens(content, keywords[i])

----------------------------------------------------------------------------
(* Properties of removeHiddenPlaceholders, checked under StripSpec *)

\* C27 (as claimed): the output of removeHiddenPlaceholders holds no placeholder
\* token, inline or block, with or without attributes, so that removing the
\* placeholders from it once more changes nothing.
C27_NoTokenLeft ==
    pc = "stripped" =>
        /\ TokenSpans(strippedContent) = {}
        /\ removeHiddenPlaceholders(strippedContent) = strippedContent

====
